---- MODULE Spec2Model ----
(***************************************************************************)
(* Model of the sync service of telofy (src/constants/Colors.ts, lines     *)
(* 36-482): syncAll, syncObjectives, syncTasks, the sync state with its    *)
(* listeners, the identity mapping, the two zustand stores the service     *)
(* reads and appends to (src/lib/store/index.ts) and generateId            *)
(* (src/unnamed/part_000).                                                 *)
(*                                                                         *)
(* Strings that the code inspects (ids, names) are spelled out character  *)
(* by character in Spelling, so that the UUID test, toLowerCase and        *)
(* generateId are computed from the characters and not assumed.            *)
(* An action is one macrotask of the program:                              *)
(* the arrival of the answer to the remote call an invocation awaits,      *)
(* followed by all the code of that invocation up to its next remote call. *)
(***************************************************************************)
EXTENDS Integers, Sequences, FiniteSets, TLC

\* ------------------------------------------------------------------ bounds
MaxPasses == 2
MaxAdds == 1
MaxFailures == 1
MaxUploads == 1
MaxChecks == 2

\* ------------------------------------------------------------ text values
Null == <<>>

\* the strings of the model and the characters each is made of: a state
\* holds the string, the code that inspects a string reads its characters
Spelling ==
  ("" :>
     <<>>) @@
  ("o1" :>
     <<"o", "1">>) @@
  ("o2" :>
     <<"o", "2">>) @@
  ("t1" :>
     <<"t", "1">>) @@
  ("AAAAAAAA-AAAA-4AAA-8AAA-AAAAAAAAAAAA" :>
     <<"A", "A", "A", "A", "A", "A", "A", "A", "-", "A", "A", "A", "A", "-",
       "4", "A", "A", "A", "-", "8", "A", "A", "A", "-", "A", "A", "A", "A",
       "A", "A", "A", "A", "A", "A", "A", "A">>) @@
  ("BBBBBBBB-BBBB-4BBB-9BBB-BBBBBBBBBBBB" :>
     <<"B", "B", "B", "B", "B", "B", "B", "B", "-", "B", "B", "B", "B", "-",
       "4", "B", "B", "B", "-", "9", "B", "B", "B", "-", "B", "B", "B", "B",
       "B", "B", "B", "B", "B", "B", "B", "B">>) @@
  ("CCCCCCCC-CCCC-4CCC-8CCC-CCCCCCCCCCCC" :>
     <<"C", "C", "C", "C", "C", "C", "C", "C", "-", "C", "C", "C", "C", "-",
       "4", "C", "C", "C", "-", "8", "C", "C", "C", "-", "C", "C", "C", "C",
       "C", "C", "C", "C", "C", "C", "C", "C">>) @@
  ("p1" :>
     <<"p", "1">>) @@
  ("m1" :>
     <<"m", "1">>) @@
  ("DDDDDDDD-DDDD-4DDD-8DDD-DDDDDDDDDDDD" :>
     <<"D", "D", "D", "D", "D", "D", "D", "D", "-", "D", "D", "D", "D", "-",
       "4", "D", "D", "D", "-", "8", "D", "D", "D", "-", "D", "D", "D", "D",
       "D", "D", "D", "D", "D", "D", "D", "D">>) @@
  ("EEEEEEEE-EEEE-4EEE-9EEE-EEEEEEEEEEEE" :>
     <<"E", "E", "E", "E", "E", "E", "E", "E", "-", "E", "E", "E", "E", "-",
       "4", "E", "E", "E", "-", "9", "E", "E", "E", "-", "E", "E", "E", "E",
       "E", "E", "E", "E", "E", "E", "E", "E">>) @@
  ("FFFFFFFF-FFFF-4FFF-AFFF-FFFFFFFFFFFF" :>
     <<"F", "F", "F", "F", "F", "F", "F", "F", "-", "F", "F", "F", "F",
       "-", "4", "F", "F", "F", "-", "A", "F", "F", "F", "-", "F", "F",
       "F", "F", "F", "F", "F", "F", "F", "F", "F", "F">>) @@
  ("Fit" :>
     <<"F", "i", "t">>) @@
  ("fit" :>
     <<"f", "i", "t">>) @@
  ("Run" :>
     <<"R", "u", "n">>) @@
  ("run" :>
     <<"r", "u", "n">>) @@
  ("00000000-0000-4000-8000-000000000000" :>
     <<"0", "0", "0", "0", "0", "0", "0", "0", "-", "0", "0", "0", "0", "-",
       "4", "0", "0", "0", "-", "8", "0", "0", "0", "-", "0", "0", "0", "0",
       "0", "0", "0", "0", "0", "0", "0", "0">>) @@
  ("11111111-1111-4111-9111-111111111111" :>
     <<"1", "1", "1", "1", "1", "1", "1", "1", "-", "1", "1", "1", "1", "-",
       "4", "1", "1", "1", "-", "9", "1", "1", "1", "-", "1", "1", "1", "1",
       "1", "1", "1", "1", "1", "1", "1", "1">>) @@
  ("22222222-2222-4222-a222-222222222222" :>
     <<"2", "2", "2", "2", "2", "2", "2", "2", "-", "2", "2", "2", "2", "-",
       "4", "2", "2", "2", "-", "a", "2", "2", "2", "-", "2", "2", "2", "2",
       "2", "2", "2", "2", "2", "2", "2", "2">>) @@
  ("33333333-3333-4333-b333-333333333333" :>
     <<"3", "3", "3", "3", "3", "3", "3", "3", "-", "3", "3", "3", "3", "-",
       "4", "3", "3", "3", "-", "b", "3", "3", "3", "-", "3", "3", "3", "3",
       "3", "3", "3", "3", "3", "3", "3", "3">>) @@
  ("44444444-4444-4444-8444-444444444444" :>
     <<"4", "4", "4", "4", "4", "4", "4", "4", "-", "4", "4", "4", "4", "-",
       "4", "4", "4", "4", "-", "8", "4", "4", "4", "-", "4", "4", "4", "4",
       "4", "4", "4", "4", "4", "4", "4", "4">>) @@
  ("55555555-5555-4555-9555-555555555555" :>
     <<"5", "5", "5", "5", "5", "5", "5", "5", "-", "5", "5", "5", "5", "-",
       "4", "5", "5", "5", "-", "9", "5", "5", "5", "-", "5", "5", "5", "5",
       "5", "5", "5", "5", "5", "5", "5", "5">>) @@
  ("66666666-6666-4666-a666-666666666666" :>
     <<"6", "6", "6", "6", "6", "6", "6", "6", "-", "6", "6", "6", "6", "-",
       "4", "6", "6", "6", "-", "a", "6", "6", "6", "-", "6", "6", "6", "6",
       "6", "6", "6", "6", "6", "6", "6", "6">>) @@
  ("77777777-7777-4777-b777-777777777777" :>
     <<"7", "7", "7", "7", "7", "7", "7", "7", "-", "7", "7", "7", "7", "-",
       "4", "7", "7", "7", "-", "b", "7", "7", "7", "-", "7", "7", "7", "7",
       "7", "7", "7", "7", "7", "7", "7", "7">>) @@
  ("88888888-8888-4888-8888-888888888888" :>
     <<"8", "8", "8", "8", "8", "8", "8", "8", "-", "8", "8", "8", "8", "-",
       "4", "8", "8", "8", "-", "8", "8", "8", "8", "-", "8", "8", "8", "8",
       "8", "8", "8", "8", "8", "8", "8", "8">>) @@
  ("99999999-9999-4999-9999-999999999999" :>
     <<"9", "9", "9", "9", "9", "9", "9", "9", "-", "9", "9", "9", "9", "-",
       "4", "9", "9", "9", "-", "9", "9", "9", "9", "-", "9", "9", "9", "9",
       "9", "9", "9", "9", "9", "9", "9", "9">>) @@
  ("aaaaaaaa-aaaa-4aaa-aaaa-aaaaaaaaaaaa" :>
     <<"a", "a", "a", "a", "a", "a", "a", "a", "-", "a", "a", "a", "a", "-",
       "4", "a", "a", "a", "-", "a", "a", "a", "a", "-", "a", "a", "a", "a",
       "a", "a", "a", "a", "a", "a", "a", "a">>) @@
  ("bbbbbbbb-bbbb-4bbb-bbbb-bbbbbbbbbbbb" :>
     <<"b", "b", "b", "b", "b", "b", "b", "b", "-", "b", "b", "b", "b", "-",
       "4", "b", "b", "b", "-", "b", "b", "b", "b", "-", "b", "b", "b", "b",
       "b", "b", "b", "b", "b", "b", "b", "b">>) @@
  ("cccccccc-cccc-4ccc-8ccc-cccccccccccc" :>
     <<"c", "c", "c", "c", "c", "c", "c", "c", "-", "c", "c", "c", "c", "-",
       "4", "c", "c", "c", "-", "8", "c", "c", "c", "-", "c", "c", "c", "c",
       "c", "c", "c", "c", "c", "c", "c", "c">>) @@
  ("dddddddd-dddd-4ddd-9ddd-dddddddddddd" :>
     <<"d", "d", "d", "d", "d", "d", "d", "d", "-", "d", "d", "d", "d", "-",
       "4", "d", "d", "d", "-", "9", "d", "d", "d", "-", "d", "d", "d", "d",
       "d", "d", "d", "d", "d", "d", "d", "d">>) @@
  ("eeeeeeee-eeee-4eee-aeee-eeeeeeeeeeee" :>
     <<"e", "e", "e", "e", "e", "e", "e", "e", "-", "e", "e", "e", "e", "-",
       "4", "e", "e", "e", "-", "a", "e", "e", "e", "-", "e", "e", "e", "e",
       "e", "e", "e", "e", "e", "e", "e", "e">>) @@
  ("ffffffff-ffff-4fff-bfff-ffffffffffff" :>
     <<"f", "f", "f", "f", "f", "f", "f", "f", "-", "f", "f", "f", "f", "-",
       "4", "f", "f", "f", "-", "b", "f", "f", "f", "-", "f", "f", "f", "f",
       "f", "f", "f", "f", "f", "f", "f", "f">>)

Strings == DOMAIN Spelling

Chars(s) == Spelling[s]

\* the string made of these characters
Intern(cs) == CHOOSE s \in Strings : Spelling[s] = cs

HexLower == <<"0","1","2","3","4","5","6","7","8","9","a","b","c","d","e","f">>

HexChars == {"0","1","2","3","4","5","6","7","8","9",
             "a","b","c","d","e","f","A","B","C","D","E","F"}

\* String.prototype.toLowerCase, character by character
LowerChar(c) ==
  CASE c = "A" -> "a" [] c = "B" -> "b" [] c = "C" -> "c" [] c = "D" -> "d"
    [] c = "E" -> "e" [] c = "F" -> "f" [] c = "R" -> "r" [] OTHER -> c

LowerCased ==
  [s \in Strings |-> Intern([k \in 1..Len(Chars(s)) |-> LowerChar(Chars(s)[k])])]

\* s.toLowerCase()
toLowerCase(s) == LowerCased[s]

\* /^[0-9a-f]{8}-[0-9a-f]{4}-[0-9a-f]{4}-[0-9a-f]{4}-[0-9a-f]{12}$/i
UUIDShaped(id) ==
  LET cs == Chars(id)
  IN /\ Len(cs) = 36
     /\ \A k \in 1..36 : IF k \in {9, 14, 19, 24} THEN cs[k] = "-"
                                                  ELSE cs[k] \in HexChars

\* the strings of the model the pattern matches
ValidUUIDs == {s \in Strings : UUIDShaped(s)}

\* uuidRegex.test(id)
isValidUUID(id) == id \in ValidUUIDs

Rep(c, n) == [k \in 1..n |-> c]

\* 'xxxxxxxx-xxxx-4xxx-yxxx-xxxxxxxxxxxx'
Template ==
  Rep("x", 8) \o <<"-">> \o Rep("x", 4) \o <<"-", "4">> \o Rep("x", 3)
    \o <<"-", "y">> \o Rep("x", 3) \o <<"-">> \o Rep("x", 12)

\* generateId with Math.random() * 16 | 0 drawing r at every position:
\* x becomes r, y becomes (r & 0x3) | 0x8, both printed in base 16
Generated(r) ==
  Intern([k \in 1..36 |-> CASE Template[k] = "x" -> HexLower[r + 1]
                            [] Template[k] = "y" -> HexLower[((r % 4) + 8) + 1]
                            [] OTHER -> Template[k]])

\* a generator of short ids, as generateShortId is: C11 tells it from
\* generateId
GeneratedShort == [r \in 0..15 |-> "m1"]

\* the ids of the model by the draw that gives them
GeneratedIds == [r \in 0..15 |-> Generated(r)]

\* generateId()
generateId(r) == GeneratedIds[r]

\* ------------------------------------------------------- the input values
NoId == ""
O1 == "o1"
O2 == "o2"
T1 == "t1"
U1 == "AAAAAAAA-AAAA-4AAA-8AAA-AAAAAAAAAAAA"
U2 == "BBBBBBBB-BBBB-4BBB-9BBB-BBBBBBBBBBBB"
UT == "CCCCCCCC-CCCC-4CCC-8CCC-CCCCCCCCCCCC"
P1 == "p1"
M1 == "m1"
UP == "DDDDDDDD-DDDD-4DDD-8DDD-DDDDDDDDDDDD"
UR == "EEEEEEEE-EEEE-4EEE-9EEE-EEEEEEEEEEEE"
UV == "FFFFFFFF-FFFF-4FFF-AFFF-FFFFFFFFFFFF"

Fit == "Fit"
fit == "fit"
Run == "Run"

\* new Date().toISOString().split('T')[0], counted in days
Today == 0

\* the day after
Tomorrow == 1

\* a metric or a ritual: its id and the pillar it belongs to
Child(id, pillarId) == [id |-> id, pillarId |-> pillarId]

\* list.map((x) => x.id)
Ids(list) == [k \in 1..Len(list) |-> list[k].id]

\* an objective: its id, its name, the ids of its pillars, its metrics and
\* its rituals
Objective(id, name) ==
  [id |-> id, name |-> name, pillars |-> <<>>, metrics |-> <<>>,
   rituals |-> <<>>, isPaused |-> FALSE]

\* an objective the user paused
Paused(objective) == [objective EXCEPT !.isPaused = TRUE]

WithChildren(objective, pillars, metrics, rituals) ==
  [objective EXCEPT !.pillars = pillars, !.metrics = metrics,
                    !.rituals = rituals]

Task(id, objectiveId, status, scheduledAt) ==
  [id |-> id, objectiveId |-> objectiveId, status |-> status,
   scheduledAt |-> scheduledAt, pillarId |-> NoId, ritualId |-> NoId,
   completedAt |-> Null, skippedReason |-> Null]

\* a task completeTask completed at this date
CompletedAt(task, date) == [task EXCEPT !.completedAt = date]

WithRefs(task, pillarId, ritualId) ==
  [task EXCEPT !.pillarId = pillarId, !.ritualId = ritualId]

\* what the user hands to addObjective / addTask while the app runs
ObjectiveInputs == {Objective(O2, fit)}

TaskInputs == {Task(T1, O1, "pending", Tomorrow)}

\* what the persisted stores hold when the app starts
StoreInputs ==
  {[objectives |-> <<>>, tasks |-> <<>>],
   [objectives |-> <<Objective(O1, Fit)>>,
    tasks |-> <<Task(T1, O1, "pending", Today)>>],
   [objectives |-> <<Objective(O1, Fit), Objective(O1, Run)>>, tasks |-> <<>>],
   [objectives |-> <<Objective(O1, Fit), Objective(O2, fit)>>,
    tasks |-> <<WithRefs(Task(T1, O1, "pending", Today), P1, UR)>>],
   [objectives |->
      <<WithChildren(Objective(U1, Run), <<P1, UP>>, <<Child(M1, P1)>>,
                     <<Child(UR, UP)>>)>>,
    tasks |-> <<WithRefs(Task(UT, U1, "overdue", Today), UP, NoId),
                CompletedAt(Task(UV, U1, "completed", Today), <<Today>>),
                Task(T1, U1, "pending", Today)>>]}

\* what the backend holds when the app starts
ServerInputs ==
  {[objectives |-> <<>>, tasks |-> <<>>],
   [objectives |-> <<Objective(U2, fit)>>,
    tasks |-> <<Task(UT, U2, "in_progress", Today),
                Task(UV, U2, "pending", Today)>>]}

\* what a failing remote call throws
ThrownValues ==
  {[isError |-> TRUE, message |-> <<"Network request failed">>],
   [isError |-> TRUE, message |-> <<"Request timed out">>]}

\* the invocations of syncAll that can be in flight together
Procs == {"a", "b"}

\* the invocation of a caller that awaits each syncAll before the next
Solo == {"a"}

\* the invocation of uploadObjective or uploadTasks
Helpers == {"h"}

\* what uploadObjective and uploadTasks are called with
UploadObjectiveInputs ==
  {WithChildren(Objective(O1, Fit), <<P1>>, <<Child(M1, P1)>>,
                <<Child(UR, UP)>>)}

UploadTasksInputs ==
  {<<WithRefs(Task(T1, O1, "pending", Today), P1, UR),
     CompletedAt(Task(UV, U1, "completed", Today), <<Today>>)>>}


\* ---------------------------------------------------------------- state
VARIABLES
  isAuthenticated,   \* what useAuthStore.getState() held at the latest read
  syncState,         \* the module variable syncState
  listeners,         \* the module variable listeners
  idMapping,         \* the module variable idMapping
  objectives,        \* useObjectiveStore.getState().objectives
  tasks,             \* useTaskStore.getState().tasks
  serverObjectives,  \* the objectives the backend holds
  serverTasks,       \* the tasks the backend holds
  inv,               \* per invocation of syncAll: its position and locals
  result,            \* per invocation: what its promise settled with
  random,            \* the stream of Math.random() draws
  now,               \* the clock new Date() reads
  runs,              \* history: invocations of syncAll so far
  adds,              \* history: records the user added since the app started
  failures,          \* history: remote calls the environment made fail
  log,               \* history: remote calls, their answers, writes
  notified,          \* history: the states notifyListeners published since
                     \* the latest authenticated syncAll began
  reconciled,        \* history: both sides when syncObjectives last returned
  hook               \* useAutoTaskGeneration: the ref isGenerating, the date
                     \* AsyncStorage holds, each call's position and locals

vars == <<isAuthenticated, syncState, listeners, idMapping, objectives, tasks,
          serverObjectives, serverTasks, inv, result, random, now, runs,
          adds, failures, log, notified, reconciled, hook>>

Listeners == {"l1"}

NoResult == [settled |-> "no", success |-> FALSE, error |-> Null]

Resolved(success, error) ==
  [settled |-> "resolved", success |-> success, error |-> error]

\* a Promise<void> that resolved
Void == [settled |-> "resolved"]

\* a promise that rejected with this error
Rejected(error) == [settled |-> "rejected", error |-> error]

\* const { isAuthenticated } = useAuthStore.getState(): the auth store is
\* not part of the service, what it holds at a call is an input
AuthInputs == BOOLEAN

\* a syncAll that awaited syncTasks first: C2 tells it from the one of the code
TasksFirst == <<"syncTasks", "syncObjectives">>

\* the order in which syncAll awaits the reconcilers
Reconcilers == <<"syncObjectives", "syncTasks">>

Frame0 ==
  [pc |-> "idle", run |-> 0, phase |-> 0, errors |-> <<>>, localErrors |-> <<>>,
   localObjectives |-> <<>>, remoteObjectives |-> <<>>,
   localTasks |-> <<>>, remoteTasks |-> <<>>,
   i |-> 0, objectiveId |-> NoId, taskId |-> NoId, serverObjectiveId |-> NoId,
   thrown |-> <<>>, again |-> FALSE]

\* let syncState = { status: 'idle', lastSyncAt: null, error: null }
InitialSyncState == [status |-> "idle", lastSyncAt |-> Null, error |-> Null]

\* getSyncState()
getSyncState == syncState

\* the calls of checkAndGenerateTasks that can be in flight together
Callers == {"g1", "g2"}

\* a call of checkAndGenerateTasks: its position, the objectives and tasks
\* its closure holds, its loop
NoCall ==
  [pc |-> "idle", settled |-> "no", objectives |-> <<>>, tasks |-> <<>>,
   i |-> 0, allNewTasks |-> <<>>]

\* const isGenerating = useRef(false), nothing stored under
\* LAST_GENERATION_KEY, no call yet
Hook0 ==
  [isGenerating |-> FALSE, lastGeneration |-> Null,
   calls |-> [q \in Callers |-> NoCall], checks |-> 0, added |-> <<>>]

Init ==
  /\ hook = Hook0
  /\ isAuthenticated = FALSE
  /\ syncState = InitialSyncState
  /\ listeners = {}
  /\ idMapping = <<>>
  /\ \E store \in StoreInputs :
       /\ objectives = store.objectives
       /\ tasks = store.tasks
  /\ \E server \in ServerInputs :
       /\ serverObjectives = server.objectives
       /\ serverTasks = server.tasks
  /\ inv = [p \in Procs \cup Helpers |-> Frame0]
  /\ result = [p \in Procs \cup Helpers |-> NoResult]
  /\ random = 0
  /\ now = 1
  /\ runs = 0
  /\ adds = 0
  /\ failures = 0
  /\ log = <<>>
  /\ notified = <<>>
  /\ reconciled = [run |-> 0, clean |-> FALSE, objectives |-> <<>>,
                   serverObjectives |-> <<>>]

\* ------------------------------------------------------ Map and list help
\* new Map(list.map((o) => [o.id, o])).has(id)
MapHas(list, id) == \E k \in 1..Len(list) : list[k].id = id

\* new Map(list.map((o) => [o.id, o])).get(id): a later entry replaces an
\* earlier one with the same key
MapGet(list, id) ==
  list[CHOOSE k \in 1..Len(list) :
         /\ list[k].id = id
         /\ \A m \in (k + 1)..Len(list) : list[m].id # id]

\* remoteByName.has(name.toLowerCase())
ByNameHas(remoteObjectives, name) ==
  \E k \in 1..Len(remoteObjectives) :
    toLowerCase(remoteObjectives[k].name) = toLowerCase(name)

\* a lookup by name that kept the first entry of a key: C10 tells it from
\* the one of the code
ByNameGetFirst(remoteObjectives, name) ==
  remoteObjectives[CHOOSE k \in 1..Len(remoteObjectives) :
     /\ toLowerCase(remoteObjectives[k].name) = toLowerCase(name)
     /\ \A m \in 1..(k - 1) :
          toLowerCase(remoteObjectives[m].name) # toLowerCase(name)]

\* remoteByName.get(name.toLowerCase()): a later entry replaces an earlier
\* one with the same key
ByNameGet(remoteObjectives, name) ==
  remoteObjectives[CHOOSE k \in 1..Len(remoteObjectives) :
     /\ toLowerCase(remoteObjectives[k].name) = toLowerCase(name)
     /\ \A m \in (k + 1)..Len(remoteObjectives) :
          toLowerCase(remoteObjectives[m].name) # toLowerCase(name)]

\* idMapping.set(key, value)
MapSet(m, key, value) ==
  [x \in (DOMAIN m) \cup {key} |-> IF x = key THEN value ELSE m[x]]

\* one entry of the history
Ev(ev, run, op, id, objectiveId, status, src) ==
  [ev |-> ev, run |-> run, op |-> op, id |-> id, objectiveId |-> objectiveId,
   status |-> status, src |-> src]

\* the invocation issues a remote call and awaits its answer
Call(c, op, id, objectiveId, status, src) ==
  [c EXCEPT !.log = Append(@, Ev("call", c.f.run, op, id, objectiveId, status, src)),
            !.f.pc = op]

\* the same, with the rest of the payload in the entry of the history
CallWith(c, op, id, objectiveId, status, src, payload) ==
  [c EXCEPT !.log = Append(@, Ev("call", c.f.run, op, id, objectiveId,
                                 status, src) @@ payload),
            !.f.pc = op]

\* the answer to the call the invocation awaits
Answer(c, ev) ==
  LET k == CHOOSE k \in 1..Len(c.log) :
             /\ c.log[k].ev = "call" /\ c.log[k].run = c.f.run
             /\ \A m \in (k + 1)..Len(c.log) :
                  ~(c.log[m].ev = "call" /\ c.log[m].run = c.f.run)
  IN [c EXCEPT !.log = Append(@, [c.log[k] EXCEPT !.ev = ev])]

\* idMapping.set(key, value), with its entry in the history
Wrote(c, via, key, value, src) ==
  [c EXCEPT !.log = Append(@, Ev("map", c.f.run, via, key, value, "", src)),
            !.idMapping = MapSet(@, key, value)]

\* -------------------------------------------------------------- the world
\* the state as the code of invocation p reads and writes it
World(p) ==
  [f |-> inv[p], syncState |-> syncState, idMapping |-> idMapping,
   objectives |-> objectives, tasks |-> tasks,
   serverObjectives |-> serverObjectives, serverTasks |-> serverTasks,
   random |-> random, now |-> now, log |-> log, notified |-> notified,
   reconciled |-> reconciled, result |-> result[p], listeners |-> listeners]

Commit(p, c) ==
  /\ inv' = [inv EXCEPT ![p] = c.f]
  /\ result' = [result EXCEPT ![p] = c.result]
  /\ syncState' = c.syncState
  /\ idMapping' = c.idMapping
  /\ objectives' = c.objectives
  /\ tasks' = c.tasks
  /\ serverObjectives' = c.serverObjectives
  /\ serverTasks' = c.serverTasks
  /\ random' = c.random
  /\ now' = c.now
  /\ log' = c.log
  /\ notified' = c.notified
  /\ reconciled' = c.reconciled

\* ------------------------------------------------------------ the stores
\* a store that refused an objective whose name it holds already: C14 tells
\* it from the one of the code
addObjectiveUnlessNamed(list, objective) ==
  IF \E k \in 1..Len(list) : list[k].name = objective.name
    THEN list
    ELSE Append(list, objective)

\* useObjectiveStore.addObjective
addObjective(list, objective) == Append(list, objective)

\* useTaskStore.addTask
addTask(list, task) == Append(list, task)

\* a store that put the new tasks before the ones it held: C28 tells it
\* from the one of the code
addTasksFirst(list, more) == more \o list

\* useTaskStore.addTasks
addTasks(list, more) == list \o more

\* ----------------------------------------------------------- the backend
\* api.getObjectives()
ServerGetObjectives(c) == c.serverObjectives

\* api.getObjective(id)
ServerGetObjective(c, id) == MapGet(c.serverObjectives, id)

\* api.getTasks(date)
ServerGetTasks(c, date) ==
  SelectSeq(c.serverTasks, LAMBDA t : t.scheduledAt = date)

\* api.createObjective(payload)
ServerCreateObjective(c, payload) ==
  [c EXCEPT !.serverObjectives = Append(@, payload)]

\* api.createTask(payload)
ServerCreateTask(c, payload) ==
  [c EXCEPT !.serverTasks = Append(@, payload)]

\* api.updateTask(id, updates)
ServerUpdateTask(c, id, status) ==
  [c EXCEPT !.serverTasks =
     [k \in 1..Len(@) |-> IF @[k].id = id THEN [@[k] EXCEPT !.status = status]
                                          ELSE @[k]]]

MayFail == failures < MaxFailures

\* --------------------------------------------------------------- syncAll
\* a notification that called every listener that ever subscribed: C21
\* tells it from the one of the code
notifyListenersEver(c) ==
  [c EXCEPT !.notified = Append(@, [run |-> c.f.run, state |-> c.syncState,
                                    to |-> Listeners])]

\* notifyListeners(): listeners.forEach((listener) => listener(syncState))
notifyListeners(c) ==
  [c EXCEPT !.notified = Append(@, [run |-> c.f.run, state |-> c.syncState,
                                    to |-> c.listeners])]

ItemsFailed(n) == <<n, "item(s) failed to sync">>

ItemsFailedDetails(n) ==
  <<n, "item(s) failed to sync", "Check console for details.">>

\* a catch block that dropped the message it caught: C4 tells it from the
\* one of the code
CaughtMessageDropped(error) == <<"Sync failed">>

\* error instanceof Error ? error.message : 'Sync failed'
CaughtMessage(error) ==
  IF error.isError THEN error.message ELSE <<"Sync failed">>

\* a catch block that left the status as it found it: C5 tells it from the
\* one of the code
CaughtSyncStateKept(state, message) == [state EXCEPT !.error = message]

\* a catch block that published a state of its own making: C34 tells it
\* from the one of the code
CaughtSyncStateFresh(state, message) ==
  [status |-> "error", lastSyncAt |-> Null, error |-> message]

\* the sync state the catch block of syncAll publishes
CaughtSyncState(state, message) ==
  [state EXCEPT !.status = "error", !.error = message]

\* a catch block that undid what the pass had recorded in idMapping: C25
\* tells it from the one of the code
CatchRolledBack(c, error) ==
  LET message == CaughtMessage(error)
      c1 == [c EXCEPT !.syncState = CaughtSyncState(@, message),
                      !.idMapping = <<>>,
                      !.f.thrown = <<error>>]
      c2 == notifyListeners(c1)
  IN [c2 EXCEPT !.result = Resolved(FALSE, message), !.f.pc = "idle"]

\* the catch block of syncAll
Catch(c, error) ==
  LET message == CaughtMessage(error)
      c1 == [c EXCEPT !.syncState = CaughtSyncState(@, message),
                      !.f.thrown = <<error>>]
      c2 == notifyListeners(c1)
  IN [c2 EXCEPT !.result = Resolved(FALSE, message), !.f.pc = "idle"]

\* a final state that kept the count of failed items also when it is zero:
\* C35 tells it from the one of the code
FinalSyncStateCounted(errors, date) ==
  [status |-> IF Len(errors) > 0 THEN "error" ELSE "success",
   lastSyncAt |-> <<date>>,
   error |-> ItemsFailed(Len(errors))]

\* the sync state syncAll publishes when both reconcilers have returned
FinalSyncState(errors, date) ==
  [status |-> IF Len(errors) > 0 THEN "error" ELSE "success",
   lastSyncAt |-> <<date>>,
   error |-> IF Len(errors) > 0 THEN ItemsFailed(Len(errors)) ELSE Null]

\* a syncAll that reported success whatever the reconcilers returned: C3
\* tells it from the one of the code
FinalResultSuccess(errors) == Resolved(TRUE, Null)

\* what syncAll returns when both reconcilers have returned
FinalResult(errors) ==
  IF Len(errors) > 0 THEN Resolved(FALSE, ItemsFailedDetails(Len(errors)))
                     ELSE Resolved(TRUE, Null)

\* if (r.errors.length > 0) errors = errors.concat(r.errors)
Concat(errors, more) == IF Len(more) > 0 THEN errors \o more ELSE errors

\* syncAll after the last reconciler has returned
Complete(c) ==
  LET c1 == [c EXCEPT !.syncState = FinalSyncState(c.f.errors, c.now),
                      !.now = @ + 1]
      c2 == notifyListeners(c1)
  IN [c2 EXCEPT !.result = FinalResult(c.f.errors), !.f.pc = "idle"]

\* syncObjectives up to api.getObjectives
StartObjectives(c) ==
  Call([c EXCEPT !.f.localObjectives = c.objectives],
       "getObjectives", NoId, NoId, "", 0)

\* syncTasks up to api.getTasks
StartTasks(c) ==
  Call([c EXCEPT !.f.localTasks = c.tasks], "getTasks", NoId, NoId, "", 0)

\* syncAll calls the k-th reconciler
StartReconciler(c, k) ==
  LET c1 == [c EXCEPT !.f.phase = k]
  IN IF Reconcilers[k] = "syncObjectives" THEN StartObjectives(c1)
                                          ELSE StartTasks(c1)

\* history: how many entries of this kind the run of c has written
Count(c, ev, op) ==
  Len(SelectSeq(c.log, LAMBDA e : e.run = c.f.run /\ e.ev = ev /\ e.op = op))

\* history: while syncObjectives ran nothing but syncObjectives wrote to
\* the objectives of either side, and no upload of it failed
Clean(c) ==
  /\ Len(c.f.localErrors) = 0
  /\ Len(c.objectives)
       = Len(c.f.localObjectives) + Count(c, "append", "objective")
  /\ Len(c.serverObjectives)
       = Len(c.f.remoteObjectives) + Count(c, "ok", "createObjective")

\* a reconciler returns { errors } to syncAll
AfterReconciler(c) ==
  LET c1 == [c EXCEPT !.f.errors = Concat(@, c.f.localErrors),
                      !.f.localErrors = <<>>]
      c2 == IF Reconcilers[c.f.phase] = "syncObjectives"
              THEN [c1 EXCEPT !.reconciled =
                      [run |-> c.f.run, clean |-> Clean(c),
                       objectives |-> c.objectives,
                       serverObjectives |-> c.serverObjectives]]
              ELSE c1
  IN IF c.f.phase = Len(Reconcilers) THEN Complete(c2)
                                     ELSE StartReconciler(c2, c.f.phase + 1)

\* ------------------------------------------------------------- syncTasks
\* the local record of a downloaded task
DownloadedTask(remote) ==
  [WithRefs(Task(remote.id, remote.objectiveId, remote.status,
                 remote.scheduledAt),
            remote.pillarId, remote.ritualId)
     EXCEPT !.completedAt = remote.completedAt,
            !.skippedReason = remote.skippedReason]

\* "Download remote tasks not in local", from position j, then return
RECURSIVE DownloadTasks(_, _)
DownloadTasks(c, j) ==
  IF j > Len(c.f.remoteTasks) THEN AfterReconciler(c)
  ELSE LET remote == c.f.remoteTasks[j]
       IN IF ~MapHas(c.f.localTasks, remote.id)
            THEN DownloadTasks(
                   [c EXCEPT !.tasks = addTasks(@, <<DownloadedTask(remote)>>),
                             !.log = Append(@, Ev("append", c.f.run, "task",
                                                  remote.id, remote.objectiveId,
                                                  remote.status, j))],
                   j + 1)
            ELSE DownloadTasks(c, j + 1)

\* a status sent as the local store holds it: C18 tells it from the one of
\* the code
apiStatusAsIs(status) == status

\* local.status === 'overdue' ? 'pending' : local.status
apiStatus(status) == IF status = "overdue" THEN "pending" ELSE status

\* a status sync that pushed the status of every local task, the ones just
\* uploaded too: C31 tells it from the one of the code
NeedsStatusSyncAlways(local, remoteTasks) == TRUE

\* remote && apiStatus !== remote.status
NeedsStatusSync(local, remoteTasks) ==
  /\ MapHas(remoteTasks, local.id)
  /\ apiStatus(local.status) # MapGet(remoteTasks, local.id).status

\* "Sync task status changes", from position c.f.i, up to the next updateTask
RECURSIVE StatusTasks(_)
StatusTasks(c) ==
  IF c.f.i > Len(c.f.localTasks) THEN DownloadTasks(c, 1)
  ELSE LET local == c.f.localTasks[c.f.i]
       IN IF NeedsStatusSync(local, c.f.remoteTasks)
            THEN CallWith(c, "updateTask", local.id, NoId,
                          apiStatus(local.status), c.f.i,
                          [completedAt |-> local.completedAt,
                           skippedReason |-> local.skippedReason])
            ELSE StatusTasks([c EXCEPT !.f.i = @ + 1])

\* an upload that sent every local id as it is: C6 tells it from the one of
\* the code
KeptId(id, r) == id

\* isValidUUID(local.id) ? local.id : generateId()
MintedId(id, r) == IF isValidUUID(id) THEN id ELSE generateId(r)

\* the ids of this list that are not UUID-shaped, one generateId() each
Draws(ids) == Cardinality({k \in 1..Len(ids) : ~isValidUUID(ids[k])})

\* list.map((x) => isValidUUID(x.id) ? x.id : generateId()), the first
\* generateId() drawing r
MintedIds(ids, r) ==
  [k \in 1..Len(ids) |->
     MintedId(ids[k], (r + Draws(SubSeq(ids, 1, k - 1))) % 16)]

\* a payload that kept every pillarId and ritualId: C17 tells it from the
\* one of the code
PassedAsIs(id) == id

\* list.map((m) => ({ id: isValidUUID(m.id) ? m.id : generateId(),
\* pillarId: m.pillarId })), the first generateId() drawing r
MintedChildren(list, r) ==
  [k \in 1..Len(list) |->
     [id |-> MintedIds(Ids(list), r)[k], pillarId |-> list[k].pillarId]]

\* local.pillarId && isValidUUID(local.pillarId) ? local.pillarId : undefined
PassedId(id) == IF id # NoId /\ isValidUUID(id) THEN id ELSE NoId

\* the draws of Math.random() that MintedId consumed
Drew(c, id) ==
  IF isValidUUID(id) THEN c ELSE [c EXCEPT !.random = (@ + 1) % 16]

\* a lookup that gave the key itself for a key without entry: C15 tells it
\* from the one of the code
idMappingGetOrKey(m, key) == IF key \in DOMAIN m THEN m[key] ELSE key

\* a lookup that found no entry at all: C16 tells it from the one of the
\* code
idMappingGetNothing(m, key) == NoId

\* idMapping.get(key), undefined when there is no entry
idMappingGet(m, key) == IF key \in DOMAIN m THEN m[key] ELSE NoId

\* "Upload new local tasks", from position c.f.i, up to the next createTask
RECURSIVE UploadTasks(_)
UploadTasks(c) ==
  IF c.f.i > Len(c.f.localTasks) THEN StatusTasks([c EXCEPT !.f.i = 1])
  ELSE LET local == c.f.localTasks[c.f.i]
       IN IF MapHas(c.f.remoteTasks, local.id)
            THEN UploadTasks([c EXCEPT !.f.i = @ + 1])
          ELSE IF idMappingGet(c.idMapping, local.objectiveId) = NoId
            THEN UploadTasks([c EXCEPT !.f.i = @ + 1])
          ELSE LET serverObjectiveId ==
                     idMappingGet(c.idMapping, local.objectiveId)
                   taskId == MintedId(local.id, c.random)
                   c1 == [Drew(c, local.id) EXCEPT
                            !.f.taskId = taskId,
                            !.f.serverObjectiveId = serverObjectiveId]
               IN CallWith(c1, "createTask", taskId, serverObjectiveId, "",
                           c.f.i,
                           [pillarId |-> PassedId(local.pillarId),
                            ritualId |-> PassedId(local.ritualId),
                            scheduledAt |-> local.scheduledAt])

\* -------------------------------------------------------- syncObjectives
\* "Download remote objectives not in local", from position c.f.i, up to
\* the next getObjective
RECURSIVE DownloadObjectives(_)
DownloadObjectives(c) ==
  IF c.f.i > Len(c.f.remoteObjectives) THEN AfterReconciler(c)
  ELSE LET remote == c.f.remoteObjectives[c.f.i]
       IN IF ~MapHas(c.f.localObjectives, remote.id)
            THEN Call(c, "getObjective", remote.id, NoId, "", c.f.i)
            ELSE DownloadObjectives([c EXCEPT !.f.i = @ + 1])

\* "Upload new local objectives", from position c.f.i, up to the next
\* createObjective
RECURSIVE UploadObjectives(_)
UploadObjectives(c) ==
  IF c.f.i > Len(c.f.localObjectives)
    THEN DownloadObjectives([c EXCEPT !.f.i = 1])
  ELSE LET local == c.f.localObjectives[c.f.i]
       IN IF MapHas(c.f.remoteObjectives, local.id)
            THEN UploadObjectives(
                   [Wrote(c, "id", local.id, local.id, c.f.i)
                      EXCEPT !.f.i = @ + 1])
          ELSE IF ByNameHas(c.f.remoteObjectives, local.name)
            THEN UploadObjectives(
                   [Wrote(c, "name", local.id,
                          ByNameGet(c.f.remoteObjectives, local.name).id, c.f.i)
                      EXCEPT !.f.i = @ + 1])
          ELSE LET objectiveId == MintedId(local.id, c.random)
                   r1 == (c.random + Draws(<<local.id>>)) % 16
                   pillars == MintedIds(local.pillars, r1)
                   r2 == (r1 + Draws(local.pillars)) % 16
                   metrics == MintedChildren(local.metrics, r2)
                   r3 == (r2 + Draws(Ids(local.metrics))) % 16
                   rituals == MintedChildren(local.rituals, r3)
                   r4 == (r3 + Draws(Ids(local.rituals))) % 16
                   c1 == [c EXCEPT !.random = r4,
                                   !.f.objectiveId = objectiveId]
               IN CallWith(c1, "createObjective", objectiveId, NoId, "",
                           c.f.i,
                           [pillars |-> pillars, metrics |-> metrics,
                            rituals |-> rituals])

\* history: this invocation starts from the two sides as the latest
\* syncObjectives, which ran clean, left them
Again(c) ==
  /\ c.reconciled.run > 0
  /\ c.reconciled.clean
  /\ c.objectives = c.reconciled.objectives
  /\ c.serverObjectives = c.reconciled.serverObjectives

\* syncAll from the authentication test to the first remote call
StartSync(c, run) ==
  LET c1 == [c EXCEPT !.f = [Frame0 EXCEPT !.run = run, !.again = Again(c)],
                      !.result = NoResult,
                      !.notified = <<>>,
                      !.syncState = [@ EXCEPT !.status = "syncing",
                                              !.error = Null]]
      c2 == notifyListeners(c1)
  IN StartReconciler(c2, 1)

\* a syncAll that published the refusal as a sync error: C1 tells it from
\* the one of the code
NotAuthenticatedPublished(p) ==
  /\ result' = [result EXCEPT ![p] = Resolved(FALSE, <<"Not authenticated">>)]
  /\ syncState' = [syncState EXCEPT !.status = "error",
                                    !.error = <<"Not authenticated">>]
  /\ notified' = Append(notified, [run |-> runs + 1, state |-> syncState',
                                   to |-> listeners])
  /\ UNCHANGED <<idMapping, objectives, tasks, serverObjectives,
                 serverTasks, inv, random, now, log, reconciled>>

\* return { success: false, error: 'Not authenticated' }
NotAuthenticated(p) ==
  /\ result' = [result EXCEPT ![p] = Resolved(FALSE, <<"Not authenticated">>)]
  /\ UNCHANGED <<syncState, idMapping, objectives, tasks, serverObjectives,
                 serverTasks, inv, random, now, log, notified, reconciled>>

\* a syncAll that also returned at once while another was in flight: C26
\* tells it from the one of the code
RefusedInFlight(p, authenticated) ==
  ~authenticated \/ \E q \in Procs \ {p} : inv[q].pc # "idle"

\* if (!isAuthenticated) return ...: the only test before the pass begins
Refused(p, authenticated) == ~authenticated

SyncAll(p) ==
  /\ inv[p].pc = "idle"
  /\ runs < MaxPasses
  /\ runs' = runs + 1
  /\ isAuthenticated' \in AuthInputs
  /\ IF Refused(p, isAuthenticated') THEN NotAuthenticated(p)
                          ELSE Commit(p, StartSync(World(p), runs + 1))
  /\ UNCHANGED <<hook, listeners, adds, failures>>

GetObjectivesOk(p) ==
  /\ inv[p].pc = "getObjectives"
  /\ LET c == Answer(World(p), "ok")
         c1 == [c EXCEPT !.f.remoteObjectives = ServerGetObjectives(c), !.f.i = 1]
     IN Commit(p, UploadObjectives(c1))
  /\ UNCHANGED <<hook, isAuthenticated, listeners, runs, adds, failures>>

GetObjectivesFail(p) ==
  /\ inv[p].pc = "getObjectives"
  /\ MayFail
  /\ \E error \in ThrownValues : Commit(p, Catch(Answer(World(p), "fail"), error))
  /\ failures' = failures + 1
  /\ UNCHANGED <<hook, isAuthenticated, listeners, runs, adds>>

CreateObjectiveOk(p) ==
  /\ inv[p].pc = "createObjective"
  /\ ~MapHas(serverObjectives, inv[p].objectiveId)
  /\ LET c == Answer(World(p), "ok")
         local == c.f.localObjectives[c.f.i]
         call == c.log[Len(c.log)]
         c1 == ServerCreateObjective(
                 c, WithChildren(Objective(c.f.objectiveId, local.name),
                                 call.pillars, call.metrics, call.rituals))
         c2 == Wrote(c1, "created", local.id, c.f.objectiveId, c.f.i)
     IN Commit(p, UploadObjectives([c2 EXCEPT !.f.i = @ + 1]))
  /\ UNCHANGED <<hook, isAuthenticated, listeners, runs, adds, failures>>

\* a message that did not name the objective: C12 tells it from the one of
\* the code
FailedObjectiveUnnamed(name) == <<"Failed to upload objective", NoId>>

\* const msg = `Failed to upload objective "${local.name}"`
FailedObjective(name) == <<"Failed to upload objective", name>>

CreateObjectiveFail(p) ==
  /\ inv[p].pc = "createObjective"
  /\ MayFail \/ MapHas(serverObjectives, inv[p].objectiveId)
  /\ LET c == Answer(World(p), "fail")
         local == c.f.localObjectives[c.f.i]
         c1 == [c EXCEPT !.f.localErrors = Append(@, FailedObjective(local.name)),
                         !.f.i = @ + 1]
     IN Commit(p, UploadObjectives(c1))
  /\ failures' = failures + 1
  /\ UNCHANGED <<hook, isAuthenticated, listeners, runs, adds>>

GetObjectiveOk(p) ==
  /\ inv[p].pc = "getObjective"
  /\ LET c == Answer(World(p), "ok")
         remote == c.f.remoteObjectives[c.f.i]
         fullObjective == ServerGetObjective(c, remote.id)
         localObjective ==
           WithChildren(Objective(fullObjective.id, fullObjective.name),
                        fullObjective.pillars, fullObjective.metrics,
                        fullObjective.rituals)
         c1 == [c EXCEPT !.objectives = addObjective(@, localObjective),
                         !.log = Append(@, Ev("append", c.f.run, "objective",
                                              localObjective.id, NoId, "", c.f.i))]
         c2 == Wrote(c1, "downloaded", localObjective.id, localObjective.id, c.f.i)
     IN Commit(p, DownloadObjectives([c2 EXCEPT !.f.i = @ + 1]))
  /\ UNCHANGED <<hook, isAuthenticated, listeners, runs, adds, failures>>

GetObjectiveFail(p) ==
  /\ inv[p].pc = "getObjective"
  /\ MayFail
  /\ \E error \in ThrownValues : Commit(p, Catch(Answer(World(p), "fail"), error))
  /\ failures' = failures + 1
  /\ UNCHANGED <<hook, isAuthenticated, listeners, runs, adds>>

GetTasksOk(p) ==
  /\ inv[p].pc = "getTasks"
  /\ LET c == Answer(World(p), "ok")
         c1 == [c EXCEPT !.f.remoteTasks = ServerGetTasks(c, Today), !.f.i = 1]
     IN Commit(p, UploadTasks(c1))
  /\ UNCHANGED <<hook, isAuthenticated, listeners, runs, adds, failures>>

GetTasksFail(p) ==
  /\ inv[p].pc = "getTasks"
  /\ MayFail
  /\ \E error \in ThrownValues : Commit(p, Catch(Answer(World(p), "fail"), error))
  /\ failures' = failures + 1
  /\ UNCHANGED <<hook, isAuthenticated, listeners, runs, adds>>

CreateTaskOk(p) ==
  /\ inv[p].pc = "createTask"
  /\ ~MapHas(serverTasks, inv[p].taskId)
  /\ LET c == Answer(World(p), "ok")
         local == c.f.localTasks[c.f.i]
         call == c.log[Len(c.log)]
         c1 == ServerCreateTask(
                 c, WithRefs(Task(c.f.taskId, c.f.serverObjectiveId, "pending",
                                  local.scheduledAt),
                             call.pillarId, call.ritualId))
     IN Commit(p, UploadTasks([c1 EXCEPT !.f.i = @ + 1]))
  /\ UNCHANGED <<hook, isAuthenticated, listeners, runs, adds, failures>>

FailedTask(id) == <<"Failed to upload task", id>>

CreateTaskFail(p) ==
  /\ inv[p].pc = "createTask"
  /\ MayFail \/ MapHas(serverTasks, inv[p].taskId)
  /\ LET c == Answer(World(p), "fail")
         local == c.f.localTasks[c.f.i]
         c1 == [c EXCEPT !.f.localErrors = Append(@, FailedTask(local.id)),
                         !.f.i = @ + 1]
     IN Commit(p, UploadTasks(c1))
  /\ failures' = failures + 1
  /\ UNCHANGED <<hook, isAuthenticated, listeners, runs, adds>>

UpdateTaskOk(p) ==
  /\ inv[p].pc = "updateTask"
  /\ LET c == Answer(World(p), "ok")
         local == c.f.localTasks[c.f.i]
         c1 == ServerUpdateTask(c, local.id, apiStatus(local.status))
     IN Commit(p, StatusTasks([c1 EXCEPT !.f.i = @ + 1]))
  /\ UNCHANGED <<hook, isAuthenticated, listeners, runs, adds, failures>>

\* a catch that reported the failed status push: C19 tells it from the one
\* of the code
StatusFailedReported(errors, id) ==
  Append(errors, <<"Failed to sync task status", id>>)

\* the catch of updateTask: "Don't add to errors"
StatusFailed(errors, id) == errors

UpdateTaskFail(p) ==
  /\ inv[p].pc = "updateTask"
  /\ MayFail
  /\ LET c == Answer(World(p), "fail")
         local == c.f.localTasks[c.f.i]
         c1 == [c EXCEPT !.f.localErrors = StatusFailed(@, local.id),
                         !.f.i = @ + 1]
     IN Commit(p, StatusTasks(c1))
  /\ failures' = failures + 1
  /\ UNCHANGED <<hook, isAuthenticated, listeners, runs, adds>>

\* ------------------------------------------ uploadObjective, uploadTasks
\* the backend gives a record that came without id an id of its own: a
\* generated id, drawn from the stream the model has
ServerId(id, r) == IF id = NoId THEN generateId(r) ELSE id

\* the same for the records of a list
ServerChildren(list, r) ==
  [k \in 1..Len(list) |-> [list[k] EXCEPT !.id = ServerId(@, (r + k - 1) % 16)]]

\* the backend refuses a foreign key that is not a UUID
ServerAccepts(id) == id = NoId \/ isValidUUID(id)

\* objective.pillars.map((p) => ({ name: p.name, ... })): no id is sent
Unidentified(ids) == [k \in 1..Len(ids) |-> NoId]

\* objective.metrics.map((m) => ({ name: m.name, ..., pillarId: m.pillarId }))
UnidentifiedChildren(list) ==
  [k \in 1..Len(list) |-> Child(NoId, list[k].pillarId)]

\* a helper that went on without a session: C22 tells it from the one of
\* the code
HelperRefusedNever(authenticated) == FALSE

\* if (!isAuthenticated) return
HelperRefused(authenticated) == ~authenticated

\* a helper begins: its locals, and the promise it returns
StartHelper(h) ==
  [World(h) EXCEPT !.f = [Frame0 EXCEPT !.run = inv[h].run - 1],
                   !.result = NoResult]

\* the helper returns
Return(c) == [c EXCEPT !.result = Void, !.f.pc = "idle"]

\* uploadObjective(objective) up to api.createObjective
uploadObjective(h, objective) ==
  /\ inv[h].pc = "idle"
  /\ inv[h].run > -MaxUploads
  /\ isAuthenticated' \in AuthInputs
  /\ LET c == [StartHelper(h) EXCEPT !.f.localObjectives = <<objective>>,
                                     !.f.i = 1]
     IN IF HelperRefused(isAuthenticated')
          THEN Commit(h, Return(c))
          ELSE Commit(h, CallWith(c, "createObjective", NoId, NoId, "", 1,
                                  [pillars |-> Unidentified(objective.pillars),
                                   metrics |-> UnidentifiedChildren(objective.metrics),
                                   rituals |-> UnidentifiedChildren(objective.rituals)]))
  /\ UNCHANGED <<hook, listeners, runs, adds, failures>>

uploadObjectiveOk(h) ==
  /\ inv[h].pc = "createObjective"
  /\ LET c == Answer(World(h), "ok")
         local == c.f.localObjectives[1]
         call == c.log[Len(c.log)]
         r1 == (c.random + 1) % 16
         r2 == (r1 + Len(call.pillars)) % 16
         r3 == (r2 + Len(call.metrics)) % 16
         c1 == ServerCreateObjective(
                 [c EXCEPT !.random = (r3 + Len(call.rituals)) % 16],
                 WithChildren(Objective(ServerId(call.id, c.random), local.name),
                              [k \in 1..Len(call.pillars) |->
                                 ServerId(call.pillars[k], (r1 + k - 1) % 16)],
                              ServerChildren(call.metrics, r2),
                              ServerChildren(call.rituals, r3)))
     IN Commit(h, Return(c1))
  /\ UNCHANGED <<hook, isAuthenticated, listeners, runs, adds, failures>>

\* a catch that kept the error to itself: C23 tells it from the one of the
\* code
UploadFailedSwallowed(c, error) == Return(c)

\* catch (error) { ...; throw error }
UploadFailed(c, error) ==
  [c EXCEPT !.result = Rejected(error), !.f.thrown = <<error>>,
            !.f.pc = "idle"]

uploadObjectiveFail(h) ==
  /\ inv[h].pc = "createObjective"
  /\ MayFail
  /\ \E error \in ThrownValues :
       Commit(h, UploadFailed(Answer(World(h), "fail"), error))
  /\ failures' = failures + 1
  /\ UNCHANGED <<hook, isAuthenticated, listeners, runs, adds>>

\* for (const task of tasks), from position c.f.i, up to the next createTask
NextUpload(c) ==
  IF c.f.i > Len(c.f.localTasks) THEN Return(c)
  ELSE LET task == c.f.localTasks[c.f.i]
       IN CallWith(c, "createTask", NoId, task.objectiveId, "", c.f.i,
                   [pillarId |-> task.pillarId, ritualId |-> task.ritualId,
                    scheduledAt |-> task.scheduledAt])

\* uploadTasks(tasks) up to the first api.createTask
uploadTasks(h, list) ==
  /\ inv[h].pc = "idle"
  /\ inv[h].run > -MaxUploads
  /\ isAuthenticated' \in AuthInputs
  /\ LET c == [StartHelper(h) EXCEPT !.f.localTasks = list, !.f.i = 1]
     IN IF HelperRefused(isAuthenticated')
          THEN Commit(h, Return(c))
          ELSE Commit(h, NextUpload(c))
  /\ UNCHANGED <<hook, listeners, runs, adds, failures>>

uploadTasksOk(h) ==
  /\ inv[h].pc = "createTask"
  /\ LET c == Answer(World(h), "ok")
         call == c.log[Len(c.log)]
     IN /\ ServerAccepts(call.objectiveId) /\ call.objectiveId # NoId
        /\ ServerAccepts(call.pillarId)
        /\ ServerAccepts(call.ritualId)
        /\ Commit(h, NextUpload(
                       [ServerCreateTask(
                          c, WithRefs(Task(ServerId(call.id, c.random),
                                           call.objectiveId, "pending",
                                           call.scheduledAt),
                                      call.pillarId, call.ritualId))
                          EXCEPT !.random = (@ + 1) % 16, !.f.i = @ + 1]))
  /\ UNCHANGED <<hook, isAuthenticated, listeners, runs, adds, failures>>

\* catch (error) { console.error(...) }
uploadTasksFail(h) ==
  /\ inv[h].pc = "createTask"
  /\ LET c == Answer(World(h), "fail")
         call == c.log[Len(c.log)]
     IN /\ \/ MayFail
           \/ ~ServerAccepts(call.objectiveId)
           \/ ~ServerAccepts(call.pillarId)
           \/ ~ServerAccepts(call.ritualId)
        /\ Commit(h, NextUpload([c EXCEPT !.f.i = @ + 1]))
  /\ failures' = failures + 1
  /\ UNCHANGED <<hook, isAuthenticated, listeners, runs, adds>>

\* ------------------------------------------------------- the environment
\* subscribeSyncState(listener)
subscribeSyncState(l) ==
  /\ l \notin listeners
  /\ listeners' = listeners \cup {l}
  /\ UNCHANGED <<hook, isAuthenticated, syncState, idMapping, objectives, tasks,
                 serverObjectives, serverTasks, inv, result, random, now, runs,
                 adds, failures, log, notified, reconciled>>

\* the function subscribeSyncState returned
unsubscribe(l) ==
  /\ l \in listeners
  /\ listeners' = listeners \ {l}
  /\ UNCHANGED <<hook, isAuthenticated, syncState, idMapping, objectives, tasks,
                 serverObjectives, serverTasks, inv, result, random, now, runs,
                 adds, failures, log, notified, reconciled>>

\* the user creates an objective
UserAddObjective(objective) ==
  /\ adds < MaxAdds
  /\ adds' = adds + 1
  /\ objectives' = addObjective(objectives, objective)
  /\ UNCHANGED <<hook, isAuthenticated, syncState, listeners, idMapping, tasks,
                 serverObjectives, serverTasks, inv, result, random, now, runs,
                 failures, log, notified, reconciled>>

\* the user creates a task
UserAddTask(task) ==
  /\ adds < MaxAdds
  /\ adds' = adds + 1
  /\ tasks' = addTask(tasks, task)
  /\ UNCHANGED <<hook, isAuthenticated, syncState, listeners, idMapping, objectives,
                 serverObjectives, serverTasks, inv, result, random, now, runs,
                 failures, log, notified, reconciled>>

\* the ids the user's actions on a task name: a task of the store and an id
\* no task has
TaskIdInputs == {UT, UR}

\* the reasons the user gives for skipping a task: reason?: string
ReasonInputs == {Null, <<"No time today">>}

\* state.tasks.findIndex((t) => t.id === id)
findIndex(list, id) ==
  IF MapHas(list, id)
    THEN CHOOSE k \in 1..Len(list) :
           list[k].id = id /\ \A j \in 1..(k - 1) : list[j].id # id
    ELSE -1

\* useTaskStore.completeTask
completeTask(id) ==
  /\ LET index == findIndex(tasks, id)
     IN tasks' = IF index # -1
                   THEN [tasks EXCEPT ![index].status = "completed",
                                      ![index].completedAt = <<now>>]
                   ELSE tasks
  /\ UNCHANGED <<hook, isAuthenticated, syncState, listeners, idMapping, objectives,
                 serverObjectives, serverTasks, inv, result, random, now, runs,
                 adds, failures, log, notified, reconciled>>

\* useTaskStore.skipTask
skipTask(id, reason) ==
  /\ LET index == findIndex(tasks, id)
     IN tasks' = IF index # -1
                   THEN [tasks EXCEPT ![index].status = "skipped",
                                      ![index].skippedReason = reason]
                   ELSE tasks
  /\ UNCHANGED <<hook, isAuthenticated, syncState, listeners, idMapping, objectives,
                 serverObjectives, serverTasks, inv, result, random, now, runs,
                 adds, failures, log, notified, reconciled>>

\* useTaskStore.startTask
startTask(id) ==
  /\ LET index == findIndex(tasks, id)
     IN tasks' = IF index # -1
                   THEN [tasks EXCEPT ![index].status = "in_progress"]
                   ELSE tasks
  /\ UNCHANGED <<hook, isAuthenticated, syncState, listeners, idMapping, objectives,
                 serverObjectives, serverTasks, inv, result, random, now, runs,
                 adds, failures, log, notified, reconciled>>

\* ------------------------------------------------- useAutoTaskGeneration
\* the day before
Yesterday == -1

\* isToday(date), dates counted in days
isToday(date) == date = Today

\* new Date().getHours()
HourInputs == {9, 21}

\* what AsyncStorage holds under LAST_GENERATION_KEY when the app starts
LastGenerationInputs == {Null, <<Yesterday>>, <<Today>>}

\* the stores the hook reads when the app starts
HookStoreInputs ==
  {[objectives |-> <<>>, tasks |-> <<>>],
   [objectives |-> <<Paused(Objective(O1, Fit))>>, tasks |-> <<>>],
   [objectives |-> <<Objective(O1, Fit), Paused(Objective(O2, Run))>>,
    tasks |-> <<Task(T1, O1, "pending", Tomorrow)>>],
   [objectives |-> <<Objective(O1, Fit), Objective(O2, Run)>>, tasks |-> <<>>],
   [objectives |-> <<Objective(O1, Fit)>>,
    tasks |-> <<Task(T1, O1, "pending", Today)>>]}

\* what generateTaskPlan resolves with for this objective: plan.tasks
PlanInputs(objective) ==
  {<<>>,
   <<Task(NoId, objective.id, "pending", Yesterday)>>,
   <<Task(NoId, objective.id, "pending", Today)>>}

\* objectives.filter((o) => !o.isPaused)
activeObjectives(list) == SelectSeq(list, LAMBDA o : ~o.isPaused)

\* tasks.filter((t) => isToday(new Date(t.scheduledAt)))
todaysTasks(list) == SelectSeq(list, LAMBDA t : isToday(t.scheduledAt))

\* plan.tasks.map(...): a fresh id each, 'pending', and the next slot of
\* today for a task planned in the past; the first generateId() draws r
newTasks(plan, r) ==
  [k \in 1..Len(plan) |->
     [plan[k] EXCEPT !.id = generateId((r + k - 1) % 16),
                     !.status = "pending",
                     !.scheduledAt = IF @ < Today THEN Today ELSE @]]

\* the call returns or throws
Settled(call, how) == [call EXCEPT !.pc = "idle", !.settled = how]

\* checkAndGenerateTasks(), up to await AsyncStorage.getItem
checkAndGenerateTasks(q) ==
  /\ hook.calls[q].pc = "idle"
  /\ hook.checks < MaxChecks
  /\ LET call == [NoCall EXCEPT !.objectives = activeObjectives(objectives),
                                !.tasks = tasks]
     IN hook' = [hook EXCEPT
                   !.checks = @ + 1,
                   !.calls[q] =
                     IF hook.isGenerating \/ call.objectives = <<>>
                       THEN Settled(call, "resolved")
                       ELSE [call EXCEPT !.pc = "getItem"]]
  /\ UNCHANGED <<isAuthenticated, syncState, listeners, idMapping, objectives,
                 tasks, serverObjectives, serverTasks, inv, result, random,
                 now, runs, adds, failures, log, notified, reconciled>>

\* getItem resolved: the tests of the date, of today's tasks and of the
\* hour, then isGenerating.current = true and the first generateTaskPlan
getItemOk(q) ==
  /\ hook.calls[q].pc = "getItem"
  /\ \E hour \in HourInputs :
       LET call == hook.calls[q]
           lastGenStr == hook.lastGeneration
       IN hook' =
            IF lastGenStr # Null /\ isToday(lastGenStr[1])
              THEN [hook EXCEPT !.calls[q] = Settled(call, "resolved")]
            ELSE IF Len(todaysTasks(call.tasks)) > 0
              THEN [hook EXCEPT !.calls[q].pc = "markItem"]
            ELSE IF hour >= 21
              THEN [hook EXCEPT !.calls[q] = Settled(call, "resolved")]
            ELSE [hook EXCEPT !.isGenerating = TRUE,
                              !.calls[q].pc = "generateTaskPlan",
                              !.calls[q].i = 1]
  /\ UNCHANGED <<isAuthenticated, syncState, listeners, idMapping, objectives,
                 tasks, serverObjectives, serverTasks, inv, result, random,
                 now, runs, adds, failures, log, notified, reconciled>>

\* getItem rejected: no try around it, the call rejects
getItemFail(q) ==
  /\ hook.calls[q].pc = "getItem"
  /\ MayFail
  /\ hook' = [hook EXCEPT !.calls[q] = Settled(@, "rejected")]
  /\ failures' = failures + 1
  /\ UNCHANGED <<isAuthenticated, syncState, listeners, idMapping, objectives,
                 tasks, serverObjectives, serverTasks, inv, result, random,
                 now, runs, adds, log, notified, reconciled>>

\* "Already have tasks for today": setItem resolved, return
markItemOk(q) ==
  /\ hook.calls[q].pc = "markItem"
  /\ hook' = [hook EXCEPT !.lastGeneration = <<Today>>,
                          !.calls[q] = Settled(@, "resolved")]
  /\ UNCHANGED <<isAuthenticated, syncState, listeners, idMapping, objectives,
                 tasks, serverObjectives, serverTasks, inv, result, random,
                 now, runs, adds, failures, log, notified, reconciled>>

markItemFail(q) ==
  /\ hook.calls[q].pc = "markItem"
  /\ MayFail
  /\ hook' = [hook EXCEPT !.calls[q] = Settled(@, "rejected")]
  /\ failures' = failures + 1
  /\ UNCHANGED <<isAuthenticated, syncState, listeners, idMapping, objectives,
                 tasks, serverObjectives, serverTasks, inv, result, random,
                 now, runs, adds, log, notified, reconciled>>

\* generateTasksForObjective returned these tasks: the next objective, or
\* addTasks(allNewTasks) and await AsyncStorage.setItem
AfterObjective(q, list) ==
  LET call == hook.calls[q]
      allNewTasks == call.allNewTasks \o list
  IN IF call.i < Len(call.objectives)
       THEN /\ hook' = [hook EXCEPT !.calls[q].allNewTasks = allNewTasks,
                                    !.calls[q].i = @ + 1]
            /\ tasks' = tasks
       ELSE /\ hook' = [hook EXCEPT
                          !.calls[q].allNewTasks = allNewTasks,
                          !.calls[q].pc = "setItem",
                          !.added = IF Len(allNewTasks) > 0 THEN Append(@, q)
                                                            ELSE @]
            /\ tasks' = IF Len(allNewTasks) > 0
                          THEN addTasks(tasks, allNewTasks)
                          ELSE tasks

\* generateTaskPlan resolved with a plan
generateTaskPlanOk(q) ==
  /\ hook.calls[q].pc = "generateTaskPlan"
  /\ \E plan \in PlanInputs(hook.calls[q].objectives[hook.calls[q].i]) :
       /\ AfterObjective(q, newTasks(plan, random))
       /\ random' = (random + Len(plan)) % 16
  /\ UNCHANGED <<isAuthenticated, syncState, listeners, idMapping, objectives,
                 serverObjectives, serverTasks, inv, result, now, runs, adds,
                 failures, log, notified, reconciled>>

\* generateTaskPlan rejected: generateTasksForObjective catches and
\* returns []
generateTaskPlanFail(q) ==
  /\ hook.calls[q].pc = "generateTaskPlan"
  /\ MayFail
  /\ AfterObjective(q, <<>>)
  /\ failures' = failures + 1
  /\ UNCHANGED <<isAuthenticated, syncState, listeners, idMapping, objectives,
                 serverObjectives, serverTasks, inv, result, random, now, runs,
                 adds, log, notified, reconciled>>

\* setItem resolved, then finally { isGenerating.current = false }
setItemOk(q) ==
  /\ hook.calls[q].pc = "setItem"
  /\ hook' = [hook EXCEPT !.lastGeneration = <<Today>>,
                          !.isGenerating = FALSE,
                          !.calls[q] = Settled(@, "resolved")]
  /\ UNCHANGED <<isAuthenticated, syncState, listeners, idMapping, objectives,
                 tasks, serverObjectives, serverTasks, inv, result, random,
                 now, runs, adds, failures, log, notified, reconciled>>

\* setItem rejected: finally { isGenerating.current = false }, the call
\* rejects
setItemFail(q) ==
  /\ hook.calls[q].pc = "setItem"
  /\ MayFail
  /\ hook' = [hook EXCEPT !.isGenerating = FALSE,
                          !.calls[q] = Settled(@, "rejected")]
  /\ failures' = failures + 1
  /\ UNCHANGED <<isAuthenticated, syncState, listeners, idMapping, objectives,
                 tasks, serverObjectives, serverTasks, inv, result, random,
                 now, runs, adds, log, notified, reconciled>>

\* the answer to the remote call invocation p awaits arrives
Returns(p) ==
  \/ GetObjectivesOk(p)
  \/ GetObjectivesFail(p)
  \/ CreateObjectiveOk(p)
  \/ CreateObjectiveFail(p)
  \/ GetObjectiveOk(p)
  \/ GetObjectiveFail(p)
  \/ GetTasksOk(p)
  \/ GetTasksFail(p)
  \/ CreateTaskOk(p)
  \/ CreateTaskFail(p)
  \/ UpdateTaskOk(p)
  \/ UpdateTaskFail(p)

Next ==
  \/ \E l \in Listeners : subscribeSyncState(l)
  \/ \E l \in Listeners : unsubscribe(l)
  \/ \E objective \in ObjectiveInputs : UserAddObjective(objective)
  \/ \E task \in TaskInputs : UserAddTask(task)
  \/ \E p \in Solo : SyncAll(p)
  \/ \E p \in Procs : GetObjectivesOk(p)
  \/ \E p \in Procs : GetObjectivesFail(p)
  \/ \E p \in Procs : CreateObjectiveOk(p)
  \/ \E p \in Procs : CreateObjectiveFail(p)
  \/ \E p \in Procs : GetObjectiveOk(p)
  \/ \E p \in Procs : GetObjectiveFail(p)
  \/ \E p \in Procs : GetTasksOk(p)
  \/ \E p \in Procs : GetTasksFail(p)
  \/ \E p \in Procs : CreateTaskOk(p)
  \/ \E p \in Procs : CreateTaskFail(p)
  \/ \E p \in Procs : UpdateTaskOk(p)
  \/ \E p \in Procs : UpdateTaskFail(p)

Spec == Init /\ [][Next]_vars

\* a step of Returns(p): the only steps that add to the history while p
\* awaits an answer
Answered(p) == inv[p].pc # "idle" /\ Len(log') > Len(log)

\* every remote call is answered, it returns or it fails: weak fairness of
\* Returns(p), which is enabled exactly while p awaits an answer
FairSpec ==
  Spec /\ \A p \in Procs :
            []<>(inv[p].pc = "idle") \/ []<><<Answered(p)>>_vars

\* syncAll called again while earlier invocations are in flight, by a user
\* who adds nothing meanwhile
OverlapNext ==
  \/ \E p \in Procs : SyncAll(p)
  \/ \E p \in Procs : GetObjectivesOk(p)
  \/ \E p \in Procs : GetObjectivesFail(p)
  \/ \E p \in Procs : CreateObjectiveOk(p)
  \/ \E p \in Procs : CreateObjectiveFail(p)
  \/ \E p \in Procs : GetObjectiveOk(p)
  \/ \E p \in Procs : GetObjectiveFail(p)
  \/ \E p \in Procs : GetTasksOk(p)
  \/ \E p \in Procs : GetTasksFail(p)
  \/ \E p \in Procs : CreateTaskOk(p)
  \/ \E p \in Procs : CreateTaskFail(p)
  \/ \E p \in Procs : UpdateTaskOk(p)
  \/ \E p \in Procs : UpdateTaskFail(p)

OverlapSpec == Init /\ [][OverlapNext]_vars

\* the helpers called before, between and during the passes of a caller
\* who awaits each syncAll before the next and adds nothing meanwhile
HelperNext ==
  \/ \E h \in Helpers : \E objective \in UploadObjectiveInputs :
       uploadObjective(h, objective)
  \/ \E h \in Helpers : uploadObjectiveOk(h)
  \/ \E h \in Helpers : uploadObjectiveFail(h)
  \/ \E h \in Helpers : \E list \in UploadTasksInputs : uploadTasks(h, list)
  \/ \E h \in Helpers : uploadTasksOk(h)
  \/ \E h \in Helpers : uploadTasksFail(h)
  \/ \E p \in Solo : SyncAll(p)
  \/ \E p \in Procs : GetObjectivesOk(p)
  \/ \E p \in Procs : GetObjectivesFail(p)
  \/ \E p \in Procs : CreateObjectiveOk(p)
  \/ \E p \in Procs : CreateObjectiveFail(p)
  \/ \E p \in Procs : GetObjectiveOk(p)
  \/ \E p \in Procs : GetObjectiveFail(p)
  \/ \E p \in Procs : GetTasksOk(p)
  \/ \E p \in Procs : GetTasksFail(p)
  \/ \E p \in Procs : CreateTaskOk(p)
  \/ \E p \in Procs : CreateTaskFail(p)
  \/ \E p \in Procs : UpdateTaskOk(p)
  \/ \E p \in Procs : UpdateTaskFail(p)

HelperSpec == Init /\ [][HelperNext]_vars

\* the user's actions on the task store while one caller syncs
StoreNext ==
  \/ \E task \in TaskInputs : UserAddTask(task)
  \/ \E id \in TaskIdInputs : startTask(id)
  \/ \E id \in TaskIdInputs : completeTask(id)
  \/ \E id \in TaskIdInputs, reason \in ReasonInputs : skipTask(id, reason)
  \/ \E p \in Solo : SyncAll(p)
  \/ \E p \in Solo : GetObjectivesOk(p)
  \/ \E p \in Solo : GetObjectivesFail(p)
  \/ \E p \in Solo : CreateObjectiveOk(p)
  \/ \E p \in Solo : CreateObjectiveFail(p)
  \/ \E p \in Solo : GetObjectiveOk(p)
  \/ \E p \in Solo : GetObjectiveFail(p)
  \/ \E p \in Solo : GetTasksOk(p)
  \/ \E p \in Solo : GetTasksFail(p)
  \/ \E p \in Solo : CreateTaskOk(p)
  \/ \E p \in Solo : CreateTaskFail(p)
  \/ \E p \in Solo : UpdateTaskOk(p)
  \/ \E p \in Solo : UpdateTaskFail(p)

StoreSpec == Init /\ [][StoreNext]_vars

\* the app starts with these stores and this stored date, nothing synced
HookInit ==
  /\ hook \in {[Hook0 EXCEPT !.lastGeneration = lastGeneration] :
                 lastGeneration \in LastGenerationInputs}
  /\ isAuthenticated = FALSE
  /\ syncState = InitialSyncState
  /\ listeners = {}
  /\ idMapping = <<>>
  /\ \E store \in HookStoreInputs :
       /\ objectives = store.objectives
       /\ tasks = store.tasks
  /\ serverObjectives = <<>>
  /\ serverTasks = <<>>
  /\ inv = [p \in Procs \cup Helpers |-> Frame0]
  /\ result = [p \in Procs \cup Helpers |-> NoResult]
  /\ random = 0
  /\ now = 1
  /\ runs = 0
  /\ adds = 0
  /\ failures = 0
  /\ log = <<>>
  /\ notified = <<>>
  /\ reconciled = [run |-> 0, clean |-> FALSE, objectives |-> <<>>,
                   serverObjectives |-> <<>>]

\* the calls of checkAndGenerateTasks, by the effect's timer or by the
\* component the hook returned it to, and the answers they await
HookNext ==
  \/ \E q \in Callers : checkAndGenerateTasks(q)
  \/ \E q \in Callers : getItemOk(q)
  \/ \E q \in Callers : getItemFail(q)
  \/ \E q \in Callers : markItemOk(q)
  \/ \E q \in Callers : markItemFail(q)
  \/ \E q \in Callers : generateTaskPlanOk(q)
  \/ \E q \in Callers : generateTaskPlanFail(q)
  \/ \E q \in Callers : setItemOk(q)
  \/ \E q \in Callers : setItemFail(q)

HookSpec == HookInit /\ [][HookNext]_vars

\* ------------------------------------------------------------ the history
ObjectiveOps == {"getObjectives", "createObjective", "getObjective"}

TaskOps == {"getTasks", "createTask", "updateTask"}

\* invocation p has settled and nothing has called syncAll since
Done(p) == inv[p].pc = "idle" /\ inv[p].run = runs /\ runs > 0 /\ isAuthenticated

\* the entries of the history that run wrote
RunLog(run) == SelectSeq(log, LAMBDA e : e.run = run)

\* ------------------------------------------------------------------- C1
\* C1: a syncAll that finds the user not authenticated returns
\* { success: false, error: 'Not authenticated' } at once: the sync state is
\* as it was, no listener is notified, no remote call is made, and idMapping,
\* the stores and the backend are as they were
C1_NotAuthenticatedReturnsAtOnce ==
  [][(runs' # runs /\ ~isAuthenticated') =>
       /\ \E p \in Procs :
            result' = [result EXCEPT ![p] = Resolved(FALSE, <<"Not authenticated">>)]
       /\ UNCHANGED <<syncState, listeners, notified, log, idMapping,
                      objectives, tasks, serverObjectives, serverTasks, inv>>]_vars

\* a refused syncAll after one that succeeded: the state still says success
C1_Witness ==
  /\ runs = 2
  /\ ~isAuthenticated
  /\ \E p \in Procs : result[p] = Resolved(FALSE, <<"Not authenticated">>)
  /\ syncState.status = "success"
  /\ Len(log) > 0

\* ------------------------------------------------------------------- C2
\* C2: within one syncAll the objective reconciler has finished, every one of
\* its remote calls answered and every mapping entry written, before the
\* task reconciler issues its first remote call
C2_ObjectivesBeforeTasks ==
  \A j \in 1..Len(log) :
    (log[j].ev = "call" /\ log[j].op \in TaskOps) =>
      /\ \A k \in (j + 1)..Len(log) :
           log[k].run = log[j].run =>
             /\ log[k].op \notin ObjectiveOps
             /\ log[k].ev # "map"
             /\ ~(log[k].ev = "append" /\ log[k].op = "objective")
      /\ \A k \in 1..(j - 1) :
           (log[k].run = log[j].run /\ log[k].ev = "call"
              /\ log[k].op \in ObjectiveOps) =>
             \E m \in (k + 1)..(j - 1) :
               /\ log[m].ev \in {"ok", "fail"}
               /\ log[m].run = log[k].run
               /\ log[m].op = log[k].op
               /\ log[m].src = log[k].src

\* a run that created an objective, wrote its mapping and then created a task
C2_Witness ==
  \E j, k, m \in 1..Len(log) :
    /\ j < k /\ k < m
    /\ log[j].run = log[m].run /\ log[k].run = log[m].run
    /\ log[j].ev = "ok" /\ log[j].op = "createObjective"
    /\ log[k].ev = "map" /\ log[k].op = "created"
    /\ log[m].ev = "call" /\ log[m].op = "createTask"

\* ------------------------------------------------------------------- C3
\* the uploads of objectives and of tasks that failed in a run
FailedUploads(run) ==
  Len(SelectSeq(log, LAMBDA e : /\ e.run = run
                                /\ e.ev = "fail"
                                /\ e.op \in {"createObjective", "createTask"}))

\* what notifyListeners published last
LastNotified == notified[Len(notified)]

\* C3: when neither reconciler throws, syncAll ends with status 'error' if
\* at least one upload of an objective or of a task failed and 'success'
\* otherwise, stamps lastSyncAt with the current time, notifies the
\* listeners of that state, and returns success = true exactly when the
\* status is 'success'; the message counts N, the failed objective uploads
\* plus the failed task uploads of this run
C3_CompletesWithCount ==
  \A p \in Procs :
    (Done(p) /\ inv[p].thrown = <<>>) =>
      LET N == FailedUploads(inv[p].run)
      IN /\ syncState.status = (IF N > 0 THEN "error" ELSE "success")
         /\ syncState.lastSyncAt = <<now - 1>>
         /\ syncState.error = (IF N > 0 THEN <<N, "item(s) failed to sync">>
                                        ELSE Null)
         /\ Len(notified) > 0
         /\ LastNotified.run = inv[p].run
         /\ LastNotified.state = syncState
         /\ result[p].settled = "resolved"
         /\ result[p].success = (syncState.status = "success")
         /\ N > 0 => /\ result[p].error[1] = N
                     /\ result[p].error[2] = "item(s) failed to sync"
         /\ N = 0 => result[p].error = Null

\* a run in which an upload failed and no reconciler threw
C3_Witness ==
  \E p \in Procs :
    /\ Done(p)
    /\ inv[p].thrown = <<>>
    /\ FailedUploads(inv[p].run) > 0
    /\ syncState.status = "error"
    /\ ~result[p].success

\* ------------------------------------------------------------------- C4
\* the remote call whose failure the catch block of syncAll caught
Thrower(run) == RunLog(run)[Len(RunLog(run))]

\* C4: when a reconciler throws, syncAll sets the status to 'error' with the
\* message it caught, notifies the listeners of that state and returns
\* { success: false, error: that message }; when the throw came from the
\* objective reconciler no task call is issued in that run
C4_SystemicError ==
  \A p \in Procs :
    (Done(p) /\ inv[p].thrown # <<>>) =>
      LET message == inv[p].thrown[1].message
      IN /\ Thrower(inv[p].run).ev = "fail"
         /\ Thrower(inv[p].run).op \in {"getObjectives", "getObjective", "getTasks"}
         /\ syncState.status = "error"
         /\ syncState.error = message
         /\ Len(notified) > 0
         /\ LastNotified.run = inv[p].run
         /\ LastNotified.state = syncState
         /\ result[p] = Resolved(FALSE, message)
         /\ Thrower(inv[p].run).op \in ObjectiveOps =>
              \A k \in 1..Len(log) :
                log[k].run = inv[p].run =>
                  /\ log[k].op \notin TaskOps
                  /\ ~(log[k].ev = "append" /\ log[k].op = "task")

\* a run whose objective reconciler threw after it had uploaded an objective
C4_Witness ==
  \E p \in Procs :
    /\ Done(p)
    /\ inv[p].thrown # <<>>
    /\ Thrower(inv[p].run).op = "getObjective"
    /\ syncState.error = <<"Request timed out">>
    /\ \E k \in 1..Len(log) :
         /\ log[k].run = inv[p].run
         /\ log[k].ev = "ok"
         /\ log[k].op = "createObjective"

\* ------------------------------------------------------------------- C5
\* C5: an authenticated syncAll whose remote calls each return or fail
\* completes: its promise resolves, whatever remote calls failed, and the
\* status is then 'success' or 'error', not 'syncing'
C5_Completes ==
  \A p \in Procs :
    (inv[p].pc # "idle") ~>
      (/\ inv[p].pc = "idle"
       /\ result[p].settled = "resolved"
       /\ syncState.status \in {"success", "error"})

\* a run that completed although a remote call failed
C5_Witness ==
  \E p \in Procs :
    /\ Done(p)
    /\ result[p].settled = "resolved"
    /\ syncState.status \in {"success", "error"}
    /\ \E k \in 1..Len(log) : log[k].run = inv[p].run /\ log[k].ev = "fail"

\* ------------------------------------------------------------------- C6
\* the remote calls and the mapping entries of a run, in order
Steps(run) ==
  SelectSeq(log, LAMBDA e : e.run = run /\ e.ev \in {"call", "map"})

\* the run of p started from one local objective o1, one pending local
\* task t1 of o1 and an empty backend, and no remote call of it failed
EndToEnd(p) ==
  /\ Done(p)
  /\ inv[p].localObjectives = <<Objective(O1, Fit)>>
  /\ inv[p].remoteObjectives = <<>>
  /\ inv[p].localTasks = <<Task(T1, O1, "pending", Today)>>
  /\ inv[p].remoteTasks = <<>>
  /\ \A k \in 1..Len(log) : log[k].run = inv[p].run => log[k].ev # "fail"

\* C6: with an empty backend, one local objective 'o1' and one pending local
\* task 't1' of 'o1', syncAll calls createObjective with a minted UUID u,
\* records o1 -> u, then calls createTask with objectiveId = u, returns
\* { success: true } and leaves the status 'success' with lastSyncAt set
C6_EndToEnd ==
  \A p \in Procs :
    EndToEnd(p) =>
      LET steps == Steps(inv[p].run)
      IN /\ Len(steps) = 5
         /\ steps[1].op = "getObjectives"
         /\ steps[2].ev = "call" /\ steps[2].op = "createObjective"
         /\ isValidUUID(steps[2].id)
         /\ steps[2].id # O1
         /\ steps[3].ev = "map" /\ steps[3].id = O1
         /\ steps[3].objectiveId = steps[2].id
         /\ steps[4].op = "getTasks"
         /\ steps[5].ev = "call" /\ steps[5].op = "createTask"
         /\ steps[5].objectiveId = steps[2].id
         /\ isValidUUID(steps[5].id)
         /\ idMapping[O1] = steps[2].id
         /\ MapHas(serverObjectives, steps[2].id)
         /\ \E k \in 1..Len(serverTasks) :
              serverTasks[k].objectiveId = steps[2].id
         /\ result[p] = Resolved(TRUE, Null)
         /\ syncState.status = "success"
         /\ syncState.lastSyncAt # Null

\* the end-to-end run has completed
C6_Witness ==
  \E p \in Procs :
    /\ EndToEnd(p)
    /\ Len(serverObjectives) = 1
    /\ Len(serverTasks) = 1
    /\ result[p].success

\* ------------------------------------------------------------------- C7
\* C7: objective reconciliation is idempotent: a run that starts from the
\* two sides as the run before it left them calls createObjective for no
\* objective and appends no objective to the local collection
C7_Idempotent ==
  \A p \in Procs :
    inv[p].again =>
      \A k \in 1..Len(log) :
        log[k].run = inv[p].run =>
          /\ ~(log[k].ev = "call" /\ log[k].op = "createObjective")
          /\ ~(log[k].ev = "append" /\ log[k].op = "objective")

\* ------------------------------------------------------------------- C8
\* C8: after any number of runs in which no remote call failed, no local
\* record has been created on the backend more than once, and no objective
\* has been downloaded as a second local copy of the local objective that an
\* earlier mapping entry says it stands for
C8_NoDuplication ==
  (\A k \in 1..Len(log) : log[k].ev # "fail") =>
    /\ \A j, k \in 1..Len(log) :
         (/\ j < k
          /\ log[j].ev = "ok" /\ log[k].ev = "ok"
          /\ log[j].op \in {"createObjective", "createTask"}
          /\ log[j].op = log[k].op) => log[j].src # log[k].src
    /\ \A j, k \in 1..Len(log) :
         (/\ j < k
          /\ log[j].ev = "map" /\ log[j].op \in {"name", "created"}
          /\ log[j].id # log[j].objectiveId
          /\ log[k].ev = "append" /\ log[k].op = "objective") =>
           log[k].id # log[j].objectiveId

\* ------------------------------------------------------------------- C9
\* C9: within a run a key of idMapping is not written a second time with
\* another value: once L is mapped to R every later resolution of L in that
\* run gives R
C9_FirstWriterWins ==
  \A j, k \in 1..Len(log) :
    (/\ j < k
     /\ log[j].ev = "map" /\ log[k].ev = "map"
     /\ log[j].run = log[k].run
     /\ log[j].id = log[k].id) => log[j].objectiveId = log[k].objectiveId

\* ------------------------------------------------------------------ C10
\* the upload loop of the latest syncObjectives of p has ended
Uploaded(p) ==
  inv[p].run > 0 /\ inv[p].pc \notin {"getObjectives", "createObjective"}

\* the positions of the fetched objectives whose lower-cased name is that
\* of the local objective at position i
NameMatches(p, i) ==
  {k \in 1..Len(inv[p].remoteObjectives) :
     toLowerCase(inv[p].remoteObjectives[k].name)
       = toLowerCase(inv[p].localObjectives[i].name)}

\* the local objective at position i has an id no fetched objective has and
\* a name that, lower-cased, a fetched objective has
NameFallback(p, i) ==
  /\ Uploaded(p)
  /\ i \in 1..Len(inv[p].localObjectives)
  /\ ~MapHas(inv[p].remoteObjectives, inv[p].localObjectives[i].id)
  /\ NameMatches(p, i) # {}

\* the remote ids the run of p mapped the local objective at i to
MappedTo(p, i) ==
  {log[k].objectiveId :
     k \in {m \in 1..Len(log) :
              /\ log[m].run = inv[p].run /\ log[m].ev = "map" /\ log[m].src = i
              /\ log[m].op \in {"id", "name", "created"}
              /\ log[m].id = inv[p].localObjectives[i].id}}

\* the run of p called createObjective for the local objective at i
Created(p, i) ==
  \E k \in 1..Len(log) :
    /\ log[k].run = inv[p].run /\ log[k].ev = "call"
    /\ log[k].op = "createObjective" /\ log[k].src = i

\* C10 as stated: a local objective whose id is no remote id and whose
\* lower-cased name is that of a remote objective R is mapped to R.id, for
\* every such R, and createObjective is not called for it
C10_NameFallbackEvery ==
  \A p \in Procs : \A i \in 1..Len(inv[p].localObjectives) :
    NameFallback(p, i) =>
      /\ \A k \in NameMatches(p, i) :
           inv[p].remoteObjectives[k].id \in MappedTo(p, i)
      /\ ~Created(p, i)

\* the last position of a non-empty set of positions
Latest(positions) == CHOOSE k \in positions : \A m \in positions : m <= k

\* C10, amended: a local objective whose id is no remote id and whose
\* lower-cased name is that of some remote objective is mapped to the id of
\* the last fetched objective with that lower-cased name, and only to it,
\* and createObjective is not called for it
C10_NameFallbackLast ==
  \A p \in Procs : \A i \in 1..Len(inv[p].localObjectives) :
    NameFallback(p, i) =>
      /\ MappedTo(p, i)
           = {inv[p].remoteObjectives[Latest(NameMatches(p, i))].id}
      /\ ~Created(p, i)

\* a local objective whose name two fetched objectives have was mapped
C10_Witness ==
  \E p \in Procs : \E i \in 1..Len(inv[p].localObjectives) :
    /\ NameFallback(p, i)
    /\ \E j, k \in NameMatches(p, i) :
         inv[p].remoteObjectives[j].id # inv[p].remoteObjectives[k].id
    /\ MappedTo(p, i) # {}

\* ------------------------------------------------------------------ C11
\* 8-4-4-4-12 hexadecimal groups, in either case
HexGroup(cs, from, n) ==
  \A k \in from..(from + n - 1) : cs[k] \in HexChars

HexGroups(id) ==
  LET cs == Chars(id)
  IN /\ Len(cs) = 36
     /\ HexGroup(cs, 1, 8) /\ cs[9] = "-"
     /\ HexGroup(cs, 10, 4) /\ cs[14] = "-"
     /\ HexGroup(cs, 15, 4) /\ cs[19] = "-"
     /\ HexGroup(cs, 20, 4) /\ cs[24] = "-"
     /\ HexGroup(cs, 25, 12)

\* the strings of the model that have that shape
Shaped == {id \in Strings : HexGroups(id)}

\* the id sent for a local id: the local id if it has the shape, an id
\* with the shape that is not the local id otherwise
SentFor(sent, local) ==
  /\ sent \in Shaped
  /\ local \in Shaped => sent = local
  /\ local \notin Shaped => sent # local

SentForAll(sent, local) ==
  /\ Len(sent) = Len(local)
  /\ \A k \in 1..Len(local) : SentFor(sent[k], local[k])

\* C11: every id the reconcilers send in a create payload, the id of the
\* objective, of each of its pillars, metrics and rituals, and the id of a
\* task, is UUID-shaped: it is the local id when that is UUID-shaped and a
\* generated id other than the local id otherwise
C11_SentIdsShaped ==
  \A p \in Procs : \A k \in 1..Len(log) :
    (log[k].run = inv[p].run /\ log[k].ev = "call") =>
      /\ log[k].op = "createObjective" =>
           LET local == inv[p].localObjectives[log[k].src]
           IN /\ SentFor(log[k].id, local.id)
              /\ SentForAll(log[k].pillars, local.pillars)
              /\ SentForAll(Ids(log[k].metrics), Ids(local.metrics))
              /\ SentForAll(Ids(log[k].rituals), Ids(local.rituals))
      /\ log[k].op = "createTask" =>
           SentFor(log[k].id, inv[p].localTasks[log[k].src].id)

\* an objective was sent under its own id with a pillar under a generated
\* id and a pillar under its own, and a task was sent under its own id
C11_Witness ==
  /\ \E k \in 1..Len(log) :
       /\ log[k].ev = "call" /\ log[k].op = "createObjective"
       /\ log[k].id = U1
       /\ Len(log[k].pillars) = 2
       /\ log[k].pillars[1] # P1
       /\ log[k].pillars[2] = UP
  /\ \E k \in 1..Len(log) :
       /\ log[k].ev = "call" /\ log[k].op = "createTask"
       /\ log[k].id = UT

\* ------------------------------------------------------------------ C12
\* syncObjectives of the latest run of p fetched the remote objectives and
\* its upload loop has ended
UploadLoopDone(p) ==
  /\ inv[p].run > 0
  /\ inv[p].pc \notin {"getObjectives", "createObjective"}
  /\ \E k \in 1..Len(log) :
       /\ log[k].run = inv[p].run
       /\ log[k].ev = "ok" /\ log[k].op = "getObjectives"

\* the entries of this kind that the run of p wrote for the objective at i
UploadEntries(p, i, ev, ops) ==
  {k \in 1..Len(log) :
     /\ log[k].run = inv[p].run /\ log[k].src = i
     /\ log[k].ev = ev /\ log[k].op \in ops}

\* the failed uploads of objectives of the run of p, in order
FailedObjectives(p) ==
  SelectSeq(log, LAMBDA e : /\ e.run = inv[p].run
                            /\ e.ev = "fail" /\ e.op = "createObjective")

\* C12: when createObjective fails for a local objective A one message, for
\* A, is added to the errors syncObjectives returns and no mapping is
\* written for A; every later local objective is still processed, and an
\* objective uploaded in the same run has its mapping written
C12_ObjectiveFailureContained ==
  \A p \in Procs :
    UploadLoopDone(p) =>
      /\ \A i \in 1..Len(inv[p].localObjectives) :
           /\ UploadEntries(p, i, "map", {"id", "name", "created"})
                \cup UploadEntries(p, i, "call", {"createObjective"}) # {}
           /\ UploadEntries(p, i, "fail", {"createObjective"}) # {} =>
                UploadEntries(p, i, "map", {"id", "name", "created"}) = {}
           /\ \A k \in UploadEntries(p, i, "ok", {"createObjective"}) :
                \E m \in UploadEntries(p, i, "map", {"created"}) :
                  /\ m > k
                  /\ log[m].id = inv[p].localObjectives[i].id
                  /\ log[m].objectiveId = log[k].id
      /\ inv[p].phase = 2 =>
           /\ Len(inv[p].errors) >= Len(FailedObjectives(p))
           /\ \A k \in 1..Len(inv[p].errors) :
                IF k <= Len(FailedObjectives(p))
                  THEN inv[p].errors[k] =
                         <<"Failed to upload objective",
                           inv[p].localObjectives[FailedObjectives(p)[k].src].name>>
                  ELSE inv[p].errors[k][1] # "Failed to upload objective"

\* the upload of the first objective failed, the second was uploaded and
\* mapped, and syncObjectives returned one message
C12_Witness ==
  \E p \in Procs :
    /\ UploadLoopDone(p)
    /\ inv[p].phase = 2
    /\ UploadEntries(p, 1, "fail", {"createObjective"}) # {}
    /\ UploadEntries(p, 2, "map", {"created"}) # {}
    /\ inv[p].errors = <<<<"Failed to upload objective", Fit>>>>

\* ------------------------------------------------------------------ C13
\* C13: syncObjectives does not raise for the failure of one item: when
\* syncAll caught a throw, the call that failed was not the createObjective
\* of one objective nor the getObjective of one objective
C13_ItemFailureNeverRaises ==
  \A p \in Procs :
    (inv[p].pc = "idle" /\ inv[p].thrown # <<>>) =>
      Thrower(inv[p].run).op \notin {"createObjective", "getObjective"}

\* ------------------------------------------------------------------ C14
\* the objective appends and self-mappings the run of p wrote for this id
Downloads(p, id, ev, op) ==
  {k \in 1..Len(log) :
     /\ log[k].run = inv[p].run /\ log[k].ev = ev /\ log[k].op = op
     /\ log[k].id = id}

TaskUploadLoopDone(p) ==
  /\ inv[p].run > 0
  /\ inv[p].pc \notin {"getTasks", "createTask"}
  /\ \E k \in 1..Len(log) :
       /\ log[k].run = inv[p].run
       /\ log[k].ev = "ok" /\ log[k].op = "getTasks"

\* the fetched tasks do not hold the local task at i
Absent(p, i) ==
  \A k \in 1..Len(inv[p].remoteTasks) :
    inv[p].remoteTasks[k].id # inv[p].localTasks[i].id

\* the createTask calls of the run of p for the local task at i
TaskCalls(p, i) ==
  {k \in 1..Len(log) :
     /\ log[k].run = inv[p].run /\ log[k].src = i
     /\ log[k].ev = "call" /\ log[k].op = "createTask"}

\* the messages about tasks among the errors of the run of p
TaskErrors(p) ==
  SelectSeq(inv[p].errors \o inv[p].localErrors,
            LAMBDA e : e[1] = "Failed to upload task")

\* C15: a local task that the fetched tasks do not hold and whose
\* objectiveId has no entry in idMapping causes no createTask call and no
\* entry of the error list: the task errors are as many as the createTask
\* calls that failed, and a run in which no call failed succeeds
C15_DeferredTask ==
  \A p \in Procs :
    TaskUploadLoopDone(p) =>
      /\ \A i \in 1..Len(inv[p].localTasks) :
           (Absent(p, i) /\ inv[p].localTasks[i].objectiveId \notin DOMAIN idMapping)
             => TaskCalls(p, i) = {}
      /\ Len(TaskErrors(p)) =
           Cardinality({k \in 1..Len(log) :
                          /\ log[k].run = inv[p].run
                          /\ log[k].ev = "fail" /\ log[k].op = "createTask"})
      /\ (/\ Done(p)
          /\ \A k \in 1..Len(log) : log[k].run = inv[p].run => log[k].ev # "fail")
           => result[p] = Resolved(TRUE, Null)

\* a run succeeded although it deferred a task
C15_Witness ==
  \E p \in Procs : \E i \in 1..Len(inv[p].localTasks) :
    /\ TaskUploadLoopDone(p)
    /\ Done(p)
    /\ Absent(p, i)
    /\ inv[p].localTasks[i].objectiveId \notin DOMAIN idMapping
    /\ TaskCalls(p, i) = {}
    /\ result[p] = Resolved(TRUE, Null)

\* ------------------------------------------------------------------ C16
\* C16: in every run in which the fetched tasks do not hold a local task
\* and its objectiveId has an entry in idMapping, createTask is called for
\* it, whether or not an earlier run deferred it
C16_DeferredTaskRetried ==
  \A p \in Procs :
    TaskUploadLoopDone(p) =>
      \A i \in 1..Len(inv[p].localTasks) :
        (Absent(p, i) /\ inv[p].localTasks[i].objectiveId \in DOMAIN idMapping)
          => TaskCalls(p, i) # {}

\* a run fetched the tasks and called createTask for no task, since the
\* upload of the objective had failed, and the next run called createTask
\* for the task
C16_Witness ==
  \E p \in Procs :
    /\ TaskUploadLoopDone(p)
    /\ inv[p].run = 2
    /\ adds = 0
    /\ Len(inv[p].localTasks) = 1
    /\ TaskCalls(p, 1) # {}
    /\ \E k \in 1..Len(log) :
         /\ log[k].run = 1 /\ log[k].ev = "fail"
         /\ log[k].op = "createObjective"
    /\ \E k \in 1..Len(log) :
         /\ log[k].run = 1 /\ log[k].ev = "ok" /\ log[k].op = "getTasks"
    /\ \A k \in 1..Len(log) :
         log[k].run = 1 => log[k].op # "createTask"

\* ------------------------------------------------------------------ C17
\* the foreign key a createTask payload may carry for this local value
Kept(id) == IF id \in Shaped THEN id ELSE NoId

\* C17: every createTask call of a run carries as objectiveId the entry of
\* idMapping for the objectiveId of the local task, and as pillarId and
\* ritualId the local value when it is UUID-shaped and nothing otherwise
C17_TaskPayload ==
  \A p \in Procs : \A k \in 1..Len(log) :
    (/\ log[k].run = inv[p].run
     /\ log[k].ev = "call" /\ log[k].op = "createTask")
      => LET local == inv[p].localTasks[log[k].src]
         IN /\ local.objectiveId \in DOMAIN idMapping
            /\ log[k].objectiveId = idMapping[local.objectiveId]
            /\ log[k].objectiveId # NoId
            /\ log[k].pillarId = Kept(local.pillarId)
            /\ log[k].ritualId = Kept(local.ritualId)

\* a createTask call whose objectiveId is not the one of the local task,
\* which dropped the pillarId and kept the ritualId
C17_Witness ==
  \E p \in Procs : \E k \in 1..Len(log) :
    /\ log[k].run = inv[p].run
    /\ log[k].ev = "call" /\ log[k].op = "createTask"
    /\ LET local == inv[p].localTasks[log[k].src]
       IN /\ log[k].objectiveId # local.objectiveId
          /\ local.pillarId # NoId /\ log[k].pillarId = NoId
          /\ local.ritualId # NoId /\ log[k].ritualId = local.ritualId

\* ------------------------------------------------------------------ C18
\* the status the backend can hold for this local status
Outbound(status) == IF status = "overdue" THEN "pending" ELSE status

\* the status loop of the latest run of p has passed the local task at i
StatusPassed(p, i) ==
  /\ TaskUploadLoopDone(p)
  /\ inv[p].pc = "updateTask" => i <= inv[p].i

\* the updateTask calls of the run of p for the local task at i
StatusCalls(p, i) ==
  {k \in 1..Len(log) :
     /\ log[k].run = inv[p].run /\ log[k].src = i
     /\ log[k].ev = "call" /\ log[k].op = "updateTask"}

\* the fetched tasks hold the local task at i with another status than
\* the outbound one
StatusDiffers(p, i) ==
  \E k \in 1..Len(inv[p].remoteTasks) :
    /\ inv[p].remoteTasks[k].id = inv[p].localTasks[i].id
    /\ inv[p].remoteTasks[k].status # Outbound(inv[p].localTasks[i].status)

\* C18: for every local task the status loop has passed, one updateTask is
\* called when the fetched tasks hold it with another status than the
\* outbound one and none otherwise, and the call carries the id of the task
\* and the outbound status
C18_StatusTranslation ==
  \A p \in Procs : \A i \in 1..Len(inv[p].localTasks) :
    StatusPassed(p, i) =>
      /\ Cardinality(StatusCalls(p, i)) = IF StatusDiffers(p, i) THEN 1 ELSE 0
      /\ \A k \in StatusCalls(p, i) :
           /\ log[k].id = inv[p].localTasks[i].id
           /\ log[k].status = Outbound(inv[p].localTasks[i].status)

\* an overdue task found in_progress on the backend was pushed as pending
\* by the first run, and the second run, which found it pending, called
\* nothing for it
C18_Witness ==
  \E p \in Procs : \E i \in 1..Len(inv[p].localTasks) :
    /\ inv[p].run = 2
    /\ StatusPassed(p, i)
    /\ inv[p].localTasks[i].status = "overdue"
    /\ \E k \in 1..Len(inv[p].remoteTasks) :
         /\ inv[p].remoteTasks[k].id = inv[p].localTasks[i].id
         /\ inv[p].remoteTasks[k].status = "pending"
    /\ StatusCalls(p, i) = {}
    /\ \E k \in 1..Len(log) :
         /\ log[k].run = 1 /\ log[k].ev = "call" /\ log[k].op = "updateTask"
         /\ log[k].id = inv[p].localTasks[i].id
         /\ log[k].status = "pending"

\* ------------------------------------------------------------------ C19
\* the updateTask calls of the run of p that failed
StatusFailures(p) ==
  {k \in 1..Len(log) :
     /\ log[k].run = inv[p].run
     /\ log[k].ev = "fail" /\ log[k].op = "updateTask"}

\* no other call of the run of p failed
OnlyStatusFailures(p) ==
  \A k \in 1..Len(log) :
    (log[k].run = inv[p].run /\ log[k].ev = "fail") => log[k].op = "updateTask"

\* C19: a failed updateTask adds nothing to the error list, and the tasks
\* after it are still taken through the status loop; a run in which no other
\* call failed returns { success: true } and leaves the status 'success'
C19_StatusFailureNotCritical ==
  \A p \in Procs :
    /\ TaskUploadLoopDone(p) =>
         /\ \A e \in 1..Len(inv[p].errors \o inv[p].localErrors) :
              (inv[p].errors \o inv[p].localErrors)[e][1]
                \in {"Failed to upload objective", "Failed to upload task"}
         /\ \A k \in StatusFailures(p) :
              \A j \in (log[k].src + 1)..Len(inv[p].localTasks) :
                (StatusPassed(p, j) /\ StatusDiffers(p, j))
                  => StatusCalls(p, j) # {}
    /\ (Done(p) /\ OnlyStatusFailures(p)) =>
         /\ result[p] = Resolved(TRUE, Null)
         /\ syncState.status = "success"
         /\ inv[p].errors = <<>>

\* the updateTask of the first task failed, the updateTask of the second
\* was called and answered, and the run succeeded
C19_Witness ==
  \E p \in Procs : \E k \in StatusFailures(p) :
    /\ Done(p)
    /\ OnlyStatusFailures(p)
    /\ \E m \in (k + 1)..Len(log) :
         /\ log[m].run = inv[p].run /\ log[m].src > log[k].src
         /\ log[m].ev = "ok" /\ log[m].op = "updateTask"
    /\ result[p] = Resolved(TRUE, Null)
    /\ syncState.status = "success"

\* ------------------------------------------------------------------ C20
\* C20: createTask and updateTask are called only for local tasks scheduled
\* today
C20_TodayOnly ==
  \A p \in Procs : \A k \in 1..Len(log) :
    (/\ log[k].run = inv[p].run
     /\ log[k].ev = "call" /\ log[k].op \in {"createTask", "updateTask"})
      => inv[p].localTasks[log[k].src].scheduledAt = Today

\* ------------------------------------------------------------------ C25
\* syncTasks of the latest run of p threw, after syncObjectives had returned
TaskPhaseThrew(p) ==
  /\ inv[p].run > 0
  /\ inv[p].pc = "idle"
  /\ inv[p].thrown # <<>>
  /\ Thrower(inv[p].run).op \in TaskOps

\* the entries of this kind that the run of p wrote to the history
Entries(p, ev, ops) ==
  {k \in 1..Len(log) :
     log[k].run = inv[p].run /\ log[k].ev = ev /\ log[k].op \in ops}

\* C25: when the task phase of a pass threw, the objectives the pass
\* downloaded are in the local collection, the objectives it created are on
\* the backend, every entry it wrote to idMapping is there as last written,
\* and the sync state is 'error'
C25_NoRollback ==
  \A p \in Procs :
    TaskPhaseThrew(p) =>
      /\ \A k \in Entries(p, "append", {"objective"}) :
           MapHas(objectives, log[k].id)
      /\ \A k \in Entries(p, "ok", {"createObjective"}) :
           MapHas(serverObjectives, log[k].id)
      /\ \A k \in Entries(p, "map", {"id", "name", "created", "downloaded"}) :
           /\ log[k].id \in DOMAIN idMapping
           /\ (\A m \in Entries(p, "map", {"id", "name", "created", "downloaded"}) :
                 (m > k) => log[m].id # log[k].id)
                => idMapping[log[k].id] = log[k].objectiveId
      /\ syncState.status = "error"

\* getTasks failed in a pass that had created an objective and downloaded
\* another
C25_Witness ==
  \E p \in Procs :
    /\ TaskPhaseThrew(p)
    /\ Entries(p, "append", {"objective"}) # {}
    /\ Entries(p, "ok", {"createObjective"}) # {}
    /\ Entries(p, "map", {"created"}) # {}
    /\ Entries(p, "map", {"downloaded"}) # {}
    /\ syncState.status = "error"

\* ------------------------------------------------------------------ C27
\* the second run follows a first run in which syncTasks returned, no call
\* has failed and the user has added nothing
SecondOfTwo(p) ==
  /\ inv[p].run = 2
  /\ adds = 0
  /\ failures = 0
  /\ \E k \in 1..Len(log) :
       log[k].run = 1 /\ log[k].ev = "ok" /\ log[k].op = "getTasks"
  /\ \A k, m \in 1..Len(log) :
       (log[k].run = 1 /\ log[m].run = 2) => k < m

\* C27: a pass that follows a pass without failures, nothing having changed
\* in between, calls neither createTask nor updateTask and appends no task
\* to the local collection
C27_TasksIdempotent ==
  \A p \in Procs :
    SecondOfTwo(p) =>
      /\ Entries(p, "call", {"createTask", "updateTask"}) = {}
      /\ Entries(p, "append", {"task"}) = {}

\* ------------------------------------------------------------------ C28
\* list is the beginning of longer
Begins(list, longer) ==
  /\ Len(list) <= Len(longer)
  /\ \A k \in 1..Len(list) : longer[k] = list[k]

\* C28: every step leaves the local objectives and the local tasks it found
\* where and as they were, and can only append to them
C28_AppendOnly ==
  [][Begins(objectives, objectives') /\ Begins(tasks, tasks')]_vars

\* a pass that uploaded the objective 'o1' and its task 't1' under minted
\* ids and downloaded nothing has settled: both are in the local collections
\* under their old ids
C28_Witness ==
  \E p \in Procs :
    /\ Done(p)
    /\ O1 \in DOMAIN idMapping /\ idMapping[O1] # O1
    /\ \E k \in Entries(p, "ok", {"createObjective"}) :
         log[k].id # O1 /\ inv[p].localObjectives[log[k].src].id = O1
    /\ \E k \in Entries(p, "ok", {"createTask"}) :
         log[k].id # T1 /\ inv[p].localTasks[log[k].src].id = T1
    /\ MapHas(objectives, O1)
    /\ MapHas(tasks, T1)
    /\ ~MapHas(tasks, idMapping[O1])

\* ------------------------------------------------------------------ C29
\* the pillarId of every record of this list is empty or the id of a pillar
\* of this payload
RefersWithin(list, pillars) ==
  \A k \in 1..Len(list) :
    \/ list[k].pillarId = NoId
    \/ \E j \in 1..Len(pillars) : pillars[j] = list[k].pillarId

\* C29: in every createObjective payload of syncObjectives the pillarId of
\* each metric and of each ritual is absent or the id of a pillar of the
\* same payload
C29_PillarRefs ==
  \A k \in 1..Len(log) :
    (log[k].ev = "call" /\ log[k].op = "createObjective")
      => /\ RefersWithin(log[k].metrics, log[k].pillars)
         /\ RefersWithin(log[k].rituals, log[k].pillars)

\* ------------------------------------------------------------------ C21
\* C21: a step that changes the sync state calls, with the new state, the
\* listeners that are subscribed and no listener that has unsubscribed, and
\* a step that leaves the sync state alone calls none; an authenticated
\* syncAll that has settled has published 'syncing' and then its final
\* state; getSyncState returns the state published last
C21_Listeners ==
  [][/\ (syncState' # syncState) =>
          /\ notified' # <<>>
          /\ notified' # notified
          /\ notified'[Len(notified')].state = syncState'
          /\ notified'[Len(notified')].to = listeners
          /\ \A l \in Listeners :
               l \notin listeners => l \notin notified'[Len(notified')].to
     /\ (syncState' = syncState) => notified' = notified
     /\ \A p \in Procs :
          Done(p)' =>
            /\ Len(notified') = 2
            /\ notified'[1].state.status = "syncing"
            /\ notified'[2].state.status \in {"success", "error"}
     /\ getSyncState' = IF notified' = <<>> THEN InitialSyncState
                        ELSE notified'[Len(notified')].state]_vars

\* a listener was called with 'syncing', unsubscribed while the pass ran,
\* and was not called with the final state
C21_Witness ==
  \E p \in Procs :
    /\ Done(p)
    /\ Len(notified) = 2
    /\ notified[1].to = {"l1"}
    /\ notified[1].state.status = "syncing"
    /\ notified[2].to = {}
    /\ notified[2].state = syncState
    /\ listeners = {}

\* ------------------------------------------------------------------ C30
\* an authenticated syncAll is in flight
InFlight == \E p \in Procs : inv[p].pc # "idle"

\* C30: the status is 'syncing' while a pass is in flight, and 'success' or
\* 'error' only while none is
C30_SyncingWhileInFlight ==
  /\ InFlight => syncState.status = "syncing"
  /\ syncState.status \in {"success", "error"} => ~InFlight

\* ------------------------------------------------------------------ C26
\* the latest entry of the history
LastEntry == log[Len(log)]

\* C26: every syncAll of an authenticated session begins a pass of its own,
\* whatever other invocations are in flight: it publishes 'syncing' and
\* calls getObjectives under its own run; and every invocation that
\* settled without a throw had getObjectives and getTasks answered under
\* its own run
C26_NoGuard ==
  [][/\ (runs' = runs + 1 /\ isAuthenticated') =>
          \E p \in Procs :
            /\ inv[p].pc = "idle"
            /\ inv'[p].pc = "getObjectives"
            /\ inv'[p].run = runs'
            /\ Len(log') = Len(log) + 1
            /\ LastEntry'.run = runs'
            /\ LastEntry'.ev = "call" /\ LastEntry'.op = "getObjectives"
            /\ syncState'.status = "syncing"
     /\ \A p \in Procs :
          (inv'[p].run > 0 /\ inv'[p].pc = "idle" /\ inv'[p].thrown = <<>>) =>
            \A op \in {"getObjectives", "getTasks"} :
              \E k \in 1..Len(log') :
                /\ log'[k].run = inv'[p].run
                /\ log'[k].ev = "ok" /\ log'[k].op = op]_vars

\* the entries of this kind that this run wrote to the history
RunEntries(run, ev, op) ==
  {k \in 1..Len(log) :
     log[k].run = run /\ log[k].ev = ev /\ log[k].op = op}

\* two invocations overlapped: each called createObjective for the same
\* local objective before either call was answered, and each appended the
\* same remote objective to the local collection
C26_Witness ==
  /\ \E i, j \in 1..Len(objectives) :
       i < j /\ objectives[i].id = objectives[j].id
  /\ \E k1 \in RunEntries(1, "call", "createObjective") :
       \E k2 \in RunEntries(2, "call", "createObjective") :
         /\ log[k1].src = log[k2].src /\ log[k1].id = log[k2].id
         /\ \A m \in RunEntries(1, "ok", "createObjective")
                       \cup RunEntries(1, "fail", "createObjective") :
              (m > k1) => m > k2
  /\ \E a1 \in RunEntries(1, "append", "objective") :
       \E a2 \in RunEntries(2, "append", "objective") :
         /\ log[a1].id = log[a2].id
         /\ Cardinality({i \in 1..Len(objectives) :
                           objectives[i].id = log[a1].id}) = 2

\* ------------------------------------------------------------------ C22
\* a step of the helper h
HelperStep(h) == inv'[h] # inv[h] \/ result'[h] # result[h]

\* C22: no step of uploadObjective or uploadTasks, whether the call it
\* awaited returned or failed, changes idMapping or the sync state or
\* notifies a listener; a helper called without a session returns at once,
\* having called nothing
C22_HelpersFrame ==
  [][\A h \in Helpers :
       HelperStep(h) =>
         /\ idMapping' = idMapping
         /\ syncState' = syncState
         /\ notified' = notified
         /\ (inv'[h].run # inv[h].run /\ ~isAuthenticated') =>
              /\ log' = log
              /\ serverObjectives' = serverObjectives
              /\ serverTasks' = serverTasks
              /\ inv'[h].pc = "idle"
              /\ result'[h] = Void]_vars

\* a helper whose call was answered has returned while a pass that had
\* written to idMapping was in flight
C22_Witness ==
  \E h \in Helpers :
    /\ inv[h].run < 0 /\ inv[h].pc = "idle"
    /\ \E k \in 1..Len(log) : log[k].run = inv[h].run /\ log[k].ev = "ok"
    /\ idMapping # <<>>
    /\ syncState.status = "syncing"
    /\ notified # <<>>

\* ------------------------------------------------------------------ C23
\* the positions of the tasks for which the invocation h called createTask,
\* in the order of the calls
Attempted(h) ==
  LET calls == SelectSeq(log, LAMBDA e : /\ e.run = inv[h].run
                                         /\ e.ev = "call"
                                         /\ e.op = "createTask")
  IN [k \in 1..Len(calls) |-> calls[k].src]

\* the calls of the invocation h that failed
HelperFailures(h) ==
  {k \in 1..Len(log) : log[k].run = inv[h].run /\ log[k].ev = "fail"}

\* C23: uploadTasks calls createTask for every task in order whatever the
\* calls before answered, and returns without an error; uploadObjective
\* rejects with the error of a createObjective that failed
C23_HelperErrors ==
  \A h \in Helpers :
    /\ (inv[h].run < 0 /\ inv[h].localTasks # <<>>) =>
         /\ result[h].settled # "rejected"
         /\ inv[h].pc = "createTask" =>
              Attempted(h) = [k \in 1..inv[h].i |-> k]
         /\ inv[h].pc = "idle" =>
              /\ result[h] = Void
              /\ \/ Attempted(h) = <<>> /\ HelperFailures(h) = {}
                 \/ Attempted(h) = [k \in 1..Len(inv[h].localTasks) |-> k]
    /\ (inv[h].run < 0 /\ inv[h].localObjectives # <<>> /\ inv[h].pc = "idle") =>
         IF HelperFailures(h) # {}
           THEN /\ inv[h].thrown # <<>>
                /\ inv[h].thrown[1] \in ThrownValues
                /\ result[h] = Rejected(inv[h].thrown[1])
           ELSE result[h] = Void

\* uploadTasks has returned: createTask failed for its first task and was
\* answered for its second
C23_Witness ==
  \E h \in Helpers :
    /\ inv[h].run < 0 /\ inv[h].pc = "idle"
    /\ Len(inv[h].localTasks) = 2
    /\ \E k \in HelperFailures(h) : log[k].src = 1
    /\ \E k \in 1..Len(log) :
         log[k].run = inv[h].run /\ log[k].ev = "ok" /\ log[k].src = 2
    /\ result[h] = Void

\* ------------------------------------------------------------------ C24
\* C24: every createObjective and createTask payload of the helpers
\* carries a UUID-shaped id for the record and for each pillar, metric and
\* ritual, and a createTask payload carries the pillarId and the ritualId
\* of the task when UUID-shaped and nothing otherwise
C24_HelperPayloads ==
  \A h \in Helpers : \A k \in 1..Len(log) :
    (log[k].run = inv[h].run /\ inv[h].run < 0 /\ log[k].ev = "call") =>
      /\ log[k].id \in Shaped
      /\ log[k].op = "createObjective" =>
           /\ \A j \in 1..Len(log[k].pillars) : log[k].pillars[j] \in Shaped
           /\ \A j \in 1..Len(log[k].metrics) : log[k].metrics[j].id \in Shaped
           /\ \A j \in 1..Len(log[k].rituals) : log[k].rituals[j].id \in Shaped
      /\ log[k].op = "createTask" =>
           /\ log[k].pillarId = Kept(inv[h].localTasks[log[k].src].pillarId)
           /\ log[k].ritualId = Kept(inv[h].localTasks[log[k].src].ritualId)

\* ------------------------------------------------------------------ C31
\* the entries a run wrote to the history while syncTasks ran
TaskLog(run) ==
  SelectSeq(log, LAMBDA e : /\ e.run = run
                            /\ \/ e.op \in TaskOps
                               \/ e.ev = "append" /\ e.op = "task")

\* where an entry belongs: 0 the fetch, 1 the upload, 2 the status sync, 3
\* the download
TaskPhase(e) ==
  IF e.op = "getTasks" THEN 0
  ELSE IF e.op = "createTask" THEN 1
  ELSE IF e.op = "updateTask" THEN 2
  ELSE 3

\* the remote calls of a run and their answers, in order
Calls(run) ==
  SelectSeq(log, LAMBDA e : e.run = run /\ e.ev \in {"call", "ok", "fail"})

\* C31: in the history of every run the entries of syncTasks are in the
\* order fetch, createTask, updateTask, appended task; each remote call of
\* the run is answered before the run issues the next; and no task has a
\* createTask and an updateTask in the same run
C31_TaskPhasesInOrder ==
  \A run \in 1..runs :
    /\ \A k, m \in 1..Len(TaskLog(run)) :
         (k < m) => TaskPhase(TaskLog(run)[k]) <= TaskPhase(TaskLog(run)[m])
    /\ \A k \in 1..Len(Calls(run)) :
         /\ (k % 2 = 1) => Calls(run)[k].ev = "call"
         /\ (k % 2 = 0) =>
              /\ Calls(run)[k].ev \in {"ok", "fail"}
              /\ Calls(run)[k].op = Calls(run)[k - 1].op
              /\ Calls(run)[k].src = Calls(run)[k - 1].src
    /\ \A k, m \in 1..Len(TaskLog(run)) :
         (/\ TaskLog(run)[k].ev = "call" /\ TaskLog(run)[k].op = "createTask"
          /\ TaskLog(run)[m].ev = "call" /\ TaskLog(run)[m].op = "updateTask")
           => TaskLog(run)[k].src # TaskLog(run)[m].src

\* a run that has called createTask, then updateTask, and then appended a
\* downloaded task
C31_Witness ==
  \E run \in 1..runs :
    /\ \E k \in 1..Len(TaskLog(run)) : TaskPhase(TaskLog(run)[k]) = 1
    /\ \E k \in 1..Len(TaskLog(run)) : TaskPhase(TaskLog(run)[k]) = 2
    /\ \E k \in 1..Len(TaskLog(run)) : TaskPhase(TaskLog(run)[k]) = 3

\* ------------------------------------------------------------------ C34
\* C34: lastSyncAt changes only in the step in which an invocation settles
\* after both reconcilers have returned, and is then the time of that step;
\* the transition to 'syncing', a pass that ends in a throw and a call
\* without a session leave it as it was
C34_LastSyncAtFrame ==
  [][/\ (syncState'.lastSyncAt # syncState.lastSyncAt) =>
          /\ syncState'.lastSyncAt = <<now>>
          /\ \E p \in Procs :
               /\ inv[p].pc # "idle" /\ inv'[p].pc = "idle"
               /\ inv'[p].thrown = <<>>
               /\ \E k \in 1..Len(log') :
                    /\ log'[k].run = inv'[p].run
                    /\ log'[k].ev = "ok" /\ log'[k].op = "getTasks"
     /\ (syncState'.status = "syncing") =>
          syncState'.lastSyncAt = syncState.lastSyncAt
     /\ (\E p \in Procs : inv[p].thrown = <<>> /\ inv'[p].thrown # <<>>) =>
          syncState'.lastSyncAt = syncState.lastSyncAt
     /\ (runs' # runs /\ ~isAuthenticated') =>
          syncState'.lastSyncAt = syncState.lastSyncAt]_vars

\* the second pass ended in a throw and lastSyncAt is still the time at
\* which the first pass completed
C34_Witness ==
  \E p \in Procs :
    /\ Done(p)
    /\ inv[p].run = 2
    /\ inv[p].thrown # <<>>
    /\ syncState.status = "error"
    /\ syncState.lastSyncAt # Null
    /\ \E k \in 1..Len(log) :
         log[k].run = 1 /\ log[k].ev = "ok" /\ log[k].op = "getTasks"

\* ------------------------------------------------------------------ C35
\* C35: the error of the sync state is non-null exactly when its status is
\* 'error'
C35_ErrorIffStatusError ==
  (syncState.error # Null) <=> (syncState.status = "error")

\* the second syncAll has cleared the error the first pass ended with
C35_Witness ==
  \E p \in Procs :
    /\ inv[p].run = 2
    /\ inv[p].pc # "idle"
    /\ syncState.status = "syncing"
    /\ syncState.error = Null
    /\ \E k \in 1..Len(log) : log[k].run = 1 /\ log[k].ev = "fail"

\* ------------------------------------------------------------------ C33
\* the updateTask calls of the status sync
StatusPushes == {k \in 1..Len(log) : log[k].ev = "call" /\ log[k].op = "updateTask"}

\* C33: after any sequence of task-store actions a task has completedAt set
\* only while its status is 'completed', and the status sync never sends a
\* completion date together with a status that is not 'completed'
C33_CompletedAtOnlyWhileCompleted ==
  /\ \A k \in 1..Len(tasks) :
       tasks[k].completedAt # Null => tasks[k].status = "completed"
  /\ \A k \in StatusPushes :
       log[k].completedAt # Null => log[k].status = "completed"

\* ------------------------------------------------------------------ C32
\* the calls between isGenerating.current = true and the finally
Generating ==
  {q \in Callers : hook.calls[q].pc \in {"generateTaskPlan", "setItem"}}

\* C32: for every interleaving of concurrent checkAndGenerateTasks calls at
\* most one call is generating at a time, the tasks of a day are added by at
\* most one call, and the flag is false once no call is generating
C32_MutualExclusion ==
  /\ Cardinality(Generating) <= 1
  /\ Len(hook.added) <= 1
  /\ Generating = {} => ~hook.isGenerating

====
